---- MODULE Spec2Model ----
(***************************************************************************)
(* Model of src/main_app.py: the three Dataset Cleaners (cargar_feedback,  *)
(* cargar_inventario, cargar_transacciones), the CleaningLogger, the       *)
(* health scorer (run_healthcheck) and FASE 2, the reconciliation of the   *)
(* cleaned Transactions against the cleaned Inventory.                     *)
(*                                                                         *)
(* Conventions of the model                                                *)
(*  - a table is [cols |-> set of column names, rows |-> sequence of       *)
(*    records]; a cell of a column the table does not have is NaN / NaStr; *)
(*  - a numeric cell is an integer or NaN; text that pd.to_numeric coerces *)
(*    to NaN is NaN already;                                               *)
(*  - a text cell is a sequence of characters, NaStr when the cell is null;*)
(*  - Satisfaccion_NPS is fixed point with two decimals (950 is 9.50);     *)
(*  - Stock_Actual is held in half units (4 is a stock of 2) so that the   *)
(*    median of two whole stocks is exact;                                 *)
(*  - a date is a day number, NaN when null, BadDate when the text cannot  *)
(*    be parsed.                                                           *)
(***************************************************************************)
EXTENDS Integers, Sequences, FiniteSets, TLC

\* ------------------------------------------------------------------------
\* Cells
\* ------------------------------------------------------------------------
NaN == -999999
BadDate == -999998
NaStr == <<"NaN">>
None == [cols |-> {"<None>"}, rows |-> <<>>]

isna(x) == x = NaN
notna(x) == x # NaN
\* comparisons of pandas: any comparison with NaN is False
lt(x, c) == x # NaN /\ x < c
gt(x, c) == x # NaN /\ x > c
le(x, c) == x # NaN /\ x <= c
ge(x, c) == x # NaN /\ x >= c
fillna(x, v) == IF x = NaN THEN v ELSE x
abs(x) == IF x = NaN THEN NaN ELSE IF x < 0 THEN 0 - x ELSE x
max2(a, b) == IF a >= b THEN a ELSE b

\* pd.to_datetime(errors="coerce"): text that is no date becomes NaT
to_datetime(x) == IF x = BadDate THEN NaN ELSE x

\* round half to even of n/d (d > 0), as round() and Series.round()
RoundDiv(n, d) ==
    LET q == n \div d
        r == n % d
    IN  IF 2 * r < d THEN q
        ELSE IF 2 * r > d THEN q + 1
        ELSE IF q % 2 = 0 THEN q ELSE q + 1

\* ------------------------------------------------------------------------
\* Text: astype(str) and str.strip()
\* ------------------------------------------------------------------------
astype_str(s) == IF s = NaStr THEN <<"n", "a", "n">> ELSE s

RECURSIVE lstrip(_)
lstrip(s) == IF s # <<>> /\ Head(s) = " " THEN lstrip(Tail(s)) ELSE s

RECURSIVE rstrip(_)
rstrip(s) ==
    IF s # <<>> /\ s[Len(s)] = " " THEN rstrip(SubSeq(s, 1, Len(s) - 1)) ELSE s

strip(s) == rstrip(lstrip(s))

\* ------------------------------------------------------------------------
\* Sequences
\* ------------------------------------------------------------------------
RECURSIVE Insert(_, _)
Insert(x, s) ==
    IF s = <<>> THEN <<x>>
    ELSE IF x <= Head(s) THEN <<x>> \o s
    ELSE <<Head(s)>> \o Insert(x, Tail(s))

RECURSIVE Sort(_)
Sort(s) == IF s = <<>> THEN <<>> ELSE Insert(Head(s), Sort(Tail(s)))

RECURSIVE SumSeq(_)
SumSeq(s) == IF s = <<>> THEN 0 ELSE Head(s) + SumSeq(Tail(s))

RECURSIVE Flatten(_)
Flatten(ss) == IF ss = <<>> THEN <<>> ELSE Head(ss) \o Flatten(Tail(ss))

\* df[mask]: the rows whose mask entry is True, in order
RECURSIVE BoolIndex(_, _)
BoolIndex(rows, mask) ==
    IF rows = <<>> THEN <<>>
    ELSE (IF Head(mask) THEN <<Head(rows)>> ELSE <<>>)
         \o BoolIndex(Tail(rows), Tail(mask))

\* mask.sum(): the number of True entries of a mask
Count(mask) == Cardinality({i \in DOMAIN mask : mask[i]})

\* duplicated(keep="last"): an entry is a duplicate when a later entry has
\* the same key
duplicated_keep_last(keys) ==
    [i \in 1..Len(keys) |-> \E j \in (i + 1)..Len(keys) : keys[j] = keys[i]]

\* duplicated(keep="first") of a sequence of keys: an entry is a duplicate
\* when an earlier entry has the same key
duplicated(keys) ==
    [i \in 1..Len(keys) |-> \E j \in 1..(i - 1) : keys[j] = keys[i]]

\* Series.quantile(k/4) with linear interpolation, times 4
Quantile4(vals, k) ==
    LET s == Sort(vals)
        p == (Len(s) - 1) * k
        f == p \div 4
        r == p % 4
    IN  IF r = 0 THEN 4 * s[f + 1]
        ELSE 4 * s[f + 1] + r * (s[f + 2] - s[f + 1])

\* Q1 - 1.5*IQR and Q3 + 1.5*IQR, times 8
lower_bound8(vals) ==
    2 * Quantile4(vals, 1) - 3 * (Quantile4(vals, 3) - Quantile4(vals, 1))
upper_bound8(vals) ==
    2 * Quantile4(vals, 3) + 3 * (Quantile4(vals, 3) - Quantile4(vals, 1))

\* Series.median(): NaN of an empty series
median(vals) ==
    LET s == Sort(vals)
        n == Len(s)
    IN  IF n = 0 THEN NaN
        ELSE IF n % 2 = 1 THEN s[(n + 1) \div 2]
        ELSE (s[n \div 2] + s[n \div 2 + 1]) \div 2

\* ------------------------------------------------------------------------
\* CleaningLogger
\* ------------------------------------------------------------------------
\* a logger that puts the new record in front of the earlier ones
log_step_prepend(steps, step_name, rows_before, rows_after, reason) ==
    <<[paso |-> Len(steps) + 1,
       nombre |-> step_name,
       filas_antes |-> rows_before,
       filas_despues |-> rows_after,
       filas_eliminadas |-> rows_before - rows_after,
       pct_eliminado |->
           RoundDiv((rows_before - rows_after) * 10000,
                    max2(1, rows_before)),
       razon |-> reason]>> \o steps

log_step(steps, step_name, rows_before, rows_after, reason) ==
    Append(steps,
           [paso |-> Len(steps) + 1,
            nombre |-> step_name,
            filas_antes |-> rows_before,
            filas_despues |-> rows_after,
            filas_eliminadas |-> rows_before - rows_after,
            pct_eliminado |->
                RoundDiv((rows_before - rows_after) * 10000,
                         max2(1, rows_before)),
            razon |-> reason])

to_dict(steps) ==
    [total_pasos |-> Len(steps),
     total_filas_eliminadas |->
         SumSeq([i \in 1..Len(steps) |-> steps[i].filas_eliminadas]),
     pasos |-> steps]

\* get_summary_text: the lines joined by "\n", each line as the values it
\* formats; the method text is not part of the records here and the line
\* of details, written when details is not empty, is left out
RECURSIVE get_summary_text(_)
get_summary_text(steps) ==
    IF steps = <<>> THEN << <<"Sin cambios detectados">> >>
    ELSE LET s == Head(steps)
         IN  << <<"Paso", s.paso, s.nombre>>,
                <<"Filas", s.filas_antes, s.filas_despues,
                  s.filas_eliminadas, s.pct_eliminado>>,
                <<"Razon", s.razon>>,
                <<"Metodo">>,
                <<"">> >>
             \o (IF Tail(steps) = <<>> THEN <<>>
                 ELSE get_summary_text(Tail(steps)))

\* the value a loader has when the script stops with an exception
Raised == [raised |-> TRUE]

\* a loader that cleans the table it read instead of a copy of it
Loaded_raw_alias(file, st) ==
    IF st.raised THEN Raised
    ELSE [raised |-> FALSE,
          raw |-> [cols |-> st.cols, rows |-> st.rows],
          clean |-> [cols |-> st.cols, rows |-> st.rows],
          filas_eliminadas |-> Len(file.rows) - Len(st.rows),
          cleaning_log |-> to_dict(st.steps)]

\* the removed-row count with its operands exchanged
Loaded_swapped(file, st) ==
    IF st.raised THEN Raised
    ELSE [raised |-> FALSE,
          raw |-> file,
          clean |-> [cols |-> st.cols, rows |-> st.rows],
          filas_eliminadas |-> Len(st.rows) - Len(file.rows),
          cleaning_log |-> to_dict(st.steps)]

\* what a loader returns (df, df_limpio, filas_eliminadas, logger.to_dict())
Loaded(file, st) ==
    IF st.raised THEN Raised
    ELSE [raised |-> FALSE,
          raw |-> file,
          clean |-> [cols |-> st.cols, rows |-> st.rows],
          filas_eliminadas |-> Len(file.rows) - Len(st.rows),
          cleaning_log |-> to_dict(st.steps)]

\* the state of a cleaner between two steps: df_limpio and logger.steps
Start(file) ==
    [cols |-> file.cols, rows |-> file.rows, steps |-> <<>>, raised |-> FALSE]

\* df_limpio = df_limpio[mask] followed by logger.log_step(...)
FilterLog(st, mask, step_name, reason) ==
    LET kept == BoolIndex(st.rows, mask)
    IN  [st EXCEPT !.rows = kept,
                   !.steps = log_step(st.steps, step_name, Len(st.rows),
                                      Len(kept), reason)]

\* the same, where the step is logged only when it removed a row
FilterLogIfAny(st, mask, step_name, reason) ==
    LET kept == BoolIndex(st.rows, mask)
    IN  [st EXCEPT !.rows = kept,
                   !.steps = IF Len(st.rows) - Len(kept) > 0
                             THEN log_step(st.steps, step_name, Len(st.rows),
                                           Len(kept), reason)
                             ELSE st.steps]

Column(rows, c) == [i \in 1..Len(rows) |-> rows[i][c]]
dropna(vals) == SelectSeq(vals, notna)

\* ------------------------------------------------------------------------
\* cargar_inventario
\* ------------------------------------------------------------------------
\* the date step dropping the rows whose date cannot be parsed
InvFechas_drop_unparseable(st) ==
    IF "Ultima_Revision" \in st.cols
    THEN FilterLog(st,
           [i \in 1..Len(st.rows) |-> st.rows[i].Ultima_Revision # BadDate],
           "Normalizar Formato de Fecha: Ultima_Revision",
           "Columna Ultima_Revision tiene multiples formatos de fecha mezclados.")
    ELSE st

InvFechas(st) ==
    IF "Ultima_Revision" \in st.cols
    THEN [st EXCEPT
            !.rows = [i \in 1..Len(st.rows) |->
                        [st.rows[i] EXCEPT
                           !.Ultima_Revision = to_datetime(@)]],
            !.steps = log_step(st.steps,
                        "Normalizar Formato de Fecha: Ultima_Revision",
                        Len(st.rows), Len(st.rows),
                        "Columna Ultima_Revision tiene multiples formatos de fecha mezclados.")]
    ELSE st

\* PASO 2.  The log_step call formats lower_bound_lead, which is bound only
\* when the column has a valid value: without one the call raises NameError.
InvLeadIQR(st) ==
    IF st.raised \/ "Lead_Time_Dias" \notin st.cols THEN st
    ELSE LET lead_valid == dropna(Column(st.rows, "Lead_Time_Dias"))
         IN  IF Len(lead_valid) > 0
             THEN FilterLog(st,
                    [i \in 1..Len(st.rows) |->
                       /\ notna(st.rows[i].Lead_Time_Dias)
                       /\ 8 * st.rows[i].Lead_Time_Dias
                             >= lower_bound8(lead_valid)
                       /\ 8 * st.rows[i].Lead_Time_Dias
                             <= upper_bound8(lead_valid)
                       /\ st.rows[i].Lead_Time_Dias >= 0],
                    "Eliminar Lead_Time_Dias Outliers mediante IQR (Rango Intercuartil)",
                    "Lead_Time es dias de resurtimiento.")
             ELSE [st EXCEPT !.raised = TRUE]

\* PASO 3
InvCostoCero(st) ==
    IF st.raised \/ "Costo_Unitario_USD" \notin st.cols THEN st
    ELSE FilterLog(st,
           [i \in 1..Len(st.rows) |-> ~le(st.rows[i].Costo_Unitario_USD, 0)],
           "Eliminar Costos <= $0.00",
           "Costo cero o negativo viola logica contable.")

\* PASO 4
InvCostoIQR(st) ==
    IF st.raised \/ "Costo_Unitario_USD" \notin st.cols THEN st
    ELSE LET costo_valid == dropna(Column(st.rows, "Costo_Unitario_USD"))
         IN  IF Len(costo_valid) > 0
             THEN FilterLog(st,
                    [i \in 1..Len(st.rows) |->
                       /\ notna(st.rows[i].Costo_Unitario_USD)
                       /\ 8 * st.rows[i].Costo_Unitario_USD
                             >= lower_bound8(costo_valid)
                       /\ 8 * st.rows[i].Costo_Unitario_USD
                             <= upper_bound8(costo_valid)],
                    "Eliminar Outliers de Costos mediante IQR (Rango Intercuartil)",
                    "Costos extremos detectados mediante IQR exceden significativamente el rango normal de costos.")
             ELSE st

\* PASO 5A.  Without the Lead_Time_Dias column mask_lead_na is all False.
InvStockIrrecuperable(st) ==
    FilterLog(st,
      [i \in 1..Len(st.rows) |->
         ~(/\ lt(st.rows[i].Stock_Actual, 0)
           /\ "Lead_Time_Dias" \in st.cols
           /\ isna(st.rows[i].Lead_Time_Dias))],
      "ELIMINAR Stock < 0 IRRECUPERABLE (+ Lead_Time NaN)",
      "Stock negativo + Lead_Time faltante = datos incompletos sin contexto de resurtimiento.")

\* a mask that finds no row to impute
mask_recuperable_none(r) == FALSE

\* mask_stock_negativo_actualizado & mask_lead_valido of one row
mask_recuperable(r) == lt(r.Stock_Actual, 0) /\ notna(r.Lead_Time_Dias)

\* PASO 5B: the step is logged with rows_before = filas_a_imputar and
\* rows_after = 0
InvStockImputar(st) ==
    LET filas_a_imputar ==
            Count([i \in 1..Len(st.rows) |-> mask_recuperable(st.rows[i])])
        stock_positivo ==
            SelectSeq(Column(st.rows, "Stock_Actual"), LAMBDA x : ge(x, 0))
        mediana_stock == median(stock_positivo)
    IN  IF "Lead_Time_Dias" \in st.cols /\ filas_a_imputar > 0
        THEN [st EXCEPT
                !.rows = [i \in 1..Len(st.rows) |->
                            IF mask_recuperable(st.rows[i])
                            THEN [st.rows[i] EXCEPT
                                    !.Stock_Actual = mediana_stock]
                            ELSE st.rows[i]],
                !.steps = log_step(st.steps,
                            "IMPUTAR Stock < 0 RECUPERABLE (con Lead_Time valido)",
                            filas_a_imputar, 0,
                            "Stock negativo + Lead_Time valido = contexto suficiente para imputacion.")]
        ELSE st

\* PASO 5C
InvStockResidual(st) ==
    FilterLogIfAny(st,
      [i \in 1..Len(st.rows) |-> ~lt(st.rows[i].Stock_Actual, 0)],
      "ELIMINAR Stock < 0 Residual (despues de imputacion)",
      "Stock aun negativo despues de imputacion.")

InvStock(st) ==
    IF st.raised \/ "Stock_Actual" \notin st.cols THEN st
    ELSE InvStockResidual(InvStockImputar(InvStockIrrecuperable(st)))

cargar_inventario(file) ==
    Loaded(file,
           InvStock(InvCostoIQR(InvCostoCero(InvLeadIQR(InvFechas(Start(file)))))))

\* ------------------------------------------------------------------------
\* cargar_feedback
\* ------------------------------------------------------------------------
\* PASO 1
FbDupCompletos(st) ==
    FilterLog(st,
      [i \in 1..Len(st.rows) |-> ~duplicated(st.rows)[i]],
      "Eliminar Duplicados Completos (filas exactamente iguales)",
      "Una misma fila de feedback aparece multiples veces identicamente.")

\* PASO 2: both identifiers become astype(str).str.strip() in the table
FbDupParciales(st) ==
    IF "Feedback_ID" \in st.cols /\ "Transaccion_ID" \in st.cols
    THEN LET stripped ==
               [i \in 1..Len(st.rows) |->
                  [st.rows[i] EXCEPT
                     !.Feedback_ID = strip(astype_str(@)),
                     !.Transaccion_ID = strip(astype_str(@))]]
         IN  FilterLog([st EXCEPT !.rows = stripped],
               [i \in 1..Len(stripped) |->
                  ~duplicated([k \in 1..Len(stripped) |->
                                 <<stripped[k].Feedback_ID,
                                   stripped[k].Transaccion_ID>>])[i]],
               "Eliminar Duplicados Parciales (mismo Feedback_ID + Transaccion_ID)",
               "Mismo cliente comenta dos veces sobre la misma transaccion.")
    ELSE st

\* the age steps without a filter at PASO 3: negative ages go with the
\* minors at PASO 5
FbEdades_negatives_as_minors(st) ==
    IF "Edad_Cliente" \in st.cols
    THEN LET s3 == [st EXCEPT !.steps =
                       log_step(st.steps, "Eliminar Edades Negativas (< 0)",
                                Len(st.rows), Len(st.rows),
                                "Edad negativa es biologicamente imposible.")]
             s4 == FilterLog(s3,
                     [i \in 1..Len(s3.rows) |->
                        ~gt(s3.rows[i].Edad_Cliente, 110)],
                     "Eliminar Edades Imposibles (> 110 anos)",
                     "Edad > 110 viola limites biologicos.")
         IN  FilterLog(s4,
               [i \in 1..Len(s4.rows) |-> ~lt(s4.rows[i].Edad_Cliente, 13)],
               "Eliminar Edades < 13 anos (menores)",
               "Clientes menores de 13 anos no pueden comprar legalmente (restriccion por edad).")
    ELSE st

\* PASO 3, 4, 5
FbEdades(st) ==
    IF "Edad_Cliente" \in st.cols
    THEN LET s3 == FilterLog(st,
                     [i \in 1..Len(st.rows) |->
                        ~lt(st.rows[i].Edad_Cliente, 0)],
                     "Eliminar Edades Negativas (< 0)",
                     "Edad negativa es biologicamente imposible.")
             s4 == FilterLog(s3,
                     [i \in 1..Len(s3.rows) |->
                        ~gt(s3.rows[i].Edad_Cliente, 110)],
                     "Eliminar Edades Imposibles (> 110 anos)",
                     "Edad > 110 viola limites biologicos.")
         IN  FilterLog(s4,
               [i \in 1..Len(s4.rows) |-> ~lt(s4.rows[i].Edad_Cliente, 13)],
               "Eliminar Edades < 13 anos (menores)",
               "Clientes menores de 13 anos no pueden comprar legalmente (restriccion por edad).")
    ELSE st

\* Series.max() and Series.min() skip NaN and are NaN of an all-NaN series
SeriesMax(vals) ==
    LET s == Sort(dropna(vals)) IN IF s = <<>> THEN NaN ELSE s[Len(s)]
SeriesMin(vals) ==
    LET s == Sort(dropna(vals)) IN IF s = <<>> THEN NaN ELSE s[1]

\* df_limpio["Satisfaccion_NPS"] = vals
SetNPS(st, vals) ==
    [st EXCEPT !.rows = [i \in 1..Len(st.rows) |->
                           [st.rows[i] EXCEPT !.Satisfaccion_NPS = vals[i]]]]

LogSame(st, step_name, reason) ==
    [st EXCEPT !.steps = log_step(st.steps, step_name, Len(st.rows),
                                  Len(st.rows), reason)]

\* the scale step with the absolute value only
FbNPSNormalizar_abs_only(st) ==
    [st EXCEPT
       !.rows = [i \in 1..Len(st.rows) |->
                   [st.rows[i] EXCEPT !.Satisfaccion_NPS = abs(@)]],
       !.steps = log_step(st.steps,
                   "Aplicar Valor Absoluto a NPS (convertir negativos a positivos)",
                   Len(st.rows), Len(st.rows),
                   "NPS negativo es inconsistencia de entrada, no refleja insatisfaccion.")]

\* PASO 6A, 6B.  Scores are fixed point: 10 is 1000 and 100 is 10000.
FbNPSNormalizar(st) ==
    LET s6a == LogSame(SetNPS(st, [i \in 1..Len(st.rows) |->
                                     abs(st.rows[i].Satisfaccion_NPS)]),
                 "Aplicar Valor Absoluto a NPS (convertir negativos a positivos)",
                 "NPS negativo es inconsistencia de entrada, no refleja insatisfaccion.")
        nps_raw_abs == Column(s6a.rows, "Satisfaccion_NPS")
        nps_max_original == SeriesMax(nps_raw_abs)
        nps_min_original == SeriesMin(nps_raw_abs)
        rango == nps_max_original - nps_min_original
    IN  IF gt(nps_max_original, 1000) /\ le(nps_max_original, 10000)
        THEN LogSame(SetNPS(s6a, [i \in 1..Len(nps_raw_abs) |->
                                    IF isna(nps_raw_abs[i]) THEN NaN
                                    ELSE RoundDiv(nps_raw_abs[i], 10)]),
               "Normalizar Escala NPS de 0-100 a 0-10",
               "NPS tiene dos escalas mezcladas: 0-10 y 0-100.")
        ELSE IF gt(nps_max_original, 10000)
        THEN LogSame(
               IF rango > 0
               THEN SetNPS(s6a, [i \in 1..Len(nps_raw_abs) |->
                      IF isna(nps_raw_abs[i]) THEN NaN
                      ELSE RoundDiv((nps_raw_abs[i] - nps_min_original) * 1000,
                                    rango)])
               ELSE s6a,
               "Normalizar Escala NPS No Estandar (> 100) a 0-10",
               "Escala NPS no estandar detectada (maximo > 100).")
        ELSE s6a

\* PASO 7, 8
FbNPS(st) ==
    IF "Satisfaccion_NPS" \in st.cols
    THEN LET s6 == FbNPSNormalizar(st)
             s7 == FilterLog(s6,
                     [i \in 1..Len(s6.rows) |->
                        ~isna(s6.rows[i].Satisfaccion_NPS)],
                     "Eliminar Registros con NPS Faltante (NaN)",
                     "NPS es metrica principal de satisfaccion.")
         IN  FilterLogIfAny(s7,
               [i \in 1..Len(s7.rows) |->
                  ~(\/ lt(s7.rows[i].Satisfaccion_NPS, 0)
                    \/ gt(s7.rows[i].Satisfaccion_NPS, 1000))],
               "Eliminar NPS Fuera de Rango [0, 10] (despues de normalizacion)",
               "NPS despues de normalizacion debe estar en [0, 10].")
    ELSE st

cargar_feedback(file) ==
    Loaded(file, FbNPS(FbEdades(FbDupParciales(FbDupCompletos(Start(file))))))

\* ------------------------------------------------------------------------
\* cargar_transacciones
\* ------------------------------------------------------------------------
\* pd.Timestamp.now(), the processing instant of the run, as a day number
Now == 100

TrxFechas(st) ==
    IF "Fecha_Venta" \in st.cols
    THEN [st EXCEPT
            !.rows = [i \in 1..Len(st.rows) |->
                        [st.rows[i] EXCEPT !.Fecha_Venta = to_datetime(@)]],
            !.steps = log_step(st.steps,
                        "Normalizar Formato de Fecha: Fecha_Venta",
                        Len(st.rows), Len(st.rows),
                        "Columna Fecha_Venta tiene multiples formatos de fecha mezclados.")]
    ELSE st

\* set(df_inventario["SKU_ID"].dropna().unique())
skus_validos(df_inventario) ==
    {df_inventario.rows[i].SKU_ID : i \in 1..Len(df_inventario.rows)}
        \ {NaStr}

\* PASO 2: the tag is computed on the identifiers as they are (no strip)
TrxSkuFantasma(st, df_inventario) ==
    IF /\ "SKU_ID" \in st.cols
       /\ df_inventario # None
       /\ "SKU_ID" \in df_inventario.cols
    THEN LogSame(
           [st EXCEPT
              !.cols = @ \cup {"SKU_Fantasma"},
              !.rows = [i \in 1..Len(st.rows) |->
                          [st.rows[i] EXCEPT
                             !.SKU_Fantasma =
                                st.rows[i].SKU_ID
                                    \notin skus_validos(df_inventario)]]],
           "Detectar SKU Fantasma (no existe en inventario)",
           "SKU en transaccion no coincide con SKU en inventario oficial.")
    ELSE st

\* PASO 3
TrxSkuNulo(st) ==
    IF "SKU_ID" \in st.cols
    THEN FilterLog(st,
           [i \in 1..Len(st.rows) |->
              ~(\/ st.rows[i].SKU_ID = NaStr
                \/ strip(astype_str(st.rows[i].SKU_ID)) = <<>>)],
           "Eliminar Transacciones con SKU Nulo/Vacio",
           "SKU es identificador unico de producto.")
    ELSE st

\* the delivery steps without the joint phantom and long-delivery removal
TrxEntrega_extreme_only(st) ==
    IF "Tiempo_Entrega_Real" \in st.cols
    THEN FilterLog(st,
           [i \in 1..Len(st.rows) |->
              ~gt(st.rows[i].Tiempo_Entrega_Real, 999)],
           "Eliminar Entregas > 999 dias (outliers extremos)",
           "Tiempo de entrega > 999 dias es implausible.")
    ELSE st

\* PASO 4, 5
TrxEntrega(st) ==
    IF "Tiempo_Entrega_Real" \in st.cols
    THEN LET s4 == FilterLog(st,
                     [i \in 1..Len(st.rows) |->
                        ~gt(st.rows[i].Tiempo_Entrega_Real, 999)],
                     "Eliminar Entregas > 999 dias (outliers extremos)",
                     "Tiempo de entrega > 999 dias es implausible.")
         IN  IF "SKU_Fantasma" \in s4.cols
             THEN FilterLog(s4,
                    [i \in 1..Len(s4.rows) |->
                       ~(/\ gt(s4.rows[i].Tiempo_Entrega_Real, 120)
                         /\ s4.rows[i].SKU_Fantasma = TRUE)],
                    "Eliminar Transacciones SOSPECHOSAS (Entrega >120 dias + SKU Fantasma)",
                    "Combinacion (Entrega larga + SKU no existe) sugiere fraude/error sistematico.")
             ELSE s4
    ELSE st

\* PASO 6
TrxCantidadCosto(st) ==
    IF "Cantidad_Vendida" \in st.cols /\ "Costo_Envio" \in st.cols
    THEN FilterLog(st,
           [i \in 1..Len(st.rows) |->
              ~(/\ lt(st.rows[i].Cantidad_Vendida, 0)
                /\ isna(st.rows[i].Costo_Envio))],
           "Eliminar Cantidad Negativa + Costo_Envio NaN",
           "Cantidad negativa (devolucion/ajuste) sin costo de envio = informacion incompleta.")
    ELSE st

\* PASO 7
TrxCantidadEntrega(st) ==
    IF "Cantidad_Vendida" \in st.cols /\ "Tiempo_Entrega_Real" \in st.cols
    THEN FilterLog(st,
           [i \in 1..Len(st.rows) |->
              ~(/\ lt(st.rows[i].Cantidad_Vendida, 0)
                /\ gt(st.rows[i].Tiempo_Entrega_Real, 100))],
           "Eliminar Cantidad Negativa + Entrega > 100 dias (anomalo)",
           "Cantidad negativa (devolucion) con entrega > 100 dias es logicamente inconsistente.")
    ELSE st

\* the cleaner without the residual removal of negative quantities
TrxCantidadResidual_skipped(st) == st

\* PASO 8
TrxCantidadResidual(st) ==
    IF "Cantidad_Vendida" \in st.cols
    THEN FilterLogIfAny(st,
           [i \in 1..Len(st.rows) |-> ~lt(st.rows[i].Cantidad_Vendida, 0)],
           "Eliminar Cantidad Negativa Residual",
           "Cantidad negativa sin contexto = anomalia.")
    ELSE st

\* E. future sale dates
TrxFechaFutura(st) ==
    IF "Fecha_Venta" \in st.cols
    THEN FilterLogIfAny(st,
           [i \in 1..Len(st.rows) |-> ~gt(st.rows[i].Fecha_Venta, Now)],
           "Eliminar Transacciones con Fecha Futura",
           "Fecha_Venta > ahora = error de fecha.")
    ELSE st

cargar_transacciones(file, df_inventario) ==
    Loaded(file,
           TrxFechaFutura(TrxCantidadResidual(TrxCantidadEntrega(
             TrxCantidadCosto(TrxEntrega(TrxSkuNulo(
               TrxSkuFantasma(TrxFechas(Start(file)), df_inventario))))))))

\* ------------------------------------------------------------------------
\* run_healthcheck
\* ------------------------------------------------------------------------
TextCols == {"SKU_ID", "Feedback_ID", "Transaccion_ID"}
NumCols == {"Stock_Actual", "Costo_Unitario_USD", "Lead_Time_Dias",
            "Ultima_Revision", "Edad_Cliente", "Satisfaccion_NPS",
            "Fecha_Venta", "Cantidad_Vendida", "Precio_Venta_Final",
            "Costo_Envio", "Tiempo_Entrega_Real", "Ticket_Soporte_Abierto"}

\* DataFrame.isna() of one cell; the cells of the columns Categoria,
\* Punto_Reorden and Rating_Producto are not modelled and never null
CellIsNa(r, c) ==
    IF c \in TextCols THEN r[c] = NaStr
    ELSE IF c \in NumCols THEN r[c] = NaN
    ELSE FALSE

\* (df.isna().mean() * 100).round(2) of one column, in hundredths of a
\* percent; the mean of no rows is NaN
missing_pct(df, c) ==
    IF Len(df.rows) = 0 THEN NaN
    ELSE RoundDiv(10000 * Count([i \in 1..Len(df.rows) |->
                                   CellIsNa(df.rows[i], c)]),
                  Len(df.rows))

\* int(df.duplicated().sum())
duplicates(df) == Count(duplicated(df.rows))

\* list(set(required_cols) - set(df.columns)); required_cols = None is {}
missing_required_cols(df, required_cols) == required_cols \ df.cols

\* a status that also looks at the content of the table
hc_status_by_rows(df, required_cols) ==
    IF missing_required_cols(df, required_cols) = {} /\ Len(df.rows) > 0
    THEN "ok" ELSE "invalid"

hc_status(df, required_cols) ==
    IF missing_required_cols(df, required_cols) = {} THEN "ok" ELSE "invalid"

\* (df[c] < v).sum(), (df[c] > v).sum() or df[c].isna().sum(), each
\* computed only when the column is there
ColCount(df, c, op, v) ==
    IF c \in df.cols
    THEN Count([i \in 1..Len(df.rows) |->
                  IF op = "lt" THEN lt(df.rows[i][c], v)
                  ELSE IF op = "gt" THEN gt(df.rows[i][c], v)
                  ELSE isna(df.rows[i][c])])
    ELSE 0

\* "999" in f"{v:.0f}" for a whole number below 100000
Shows999(v) ==
    \/ v = 999
    \/ (v >= 1000 /\ v % 1000 = 999)
    \/ (v >= 9990 /\ v <= 9999)

\* entrega.quantile(0.95) times 20, NaN of an all-NaN series
P95x20(vals) ==
    LET s == Sort(dropna(vals))
        p == (Len(s) - 1) * 19
        f == p \div 20
        r == p % 20
    IN  IF s = <<>> THEN NaN
        ELSE IF r = 0 THEN 20 * s[f + 1]
        ELSE 20 * s[f + 1] + r * (s[f + 2] - s[f + 1])

\* f"{p95:.0f}" shows 999 (the only value with "999" below 1000)
P95Shows999(vals) ==
    LET q == P95x20(vals)
    IN  q # NaN /\ Shows999(RoundDiv(q, 20))

\* the penalties of lines 1158-1164: one per entry of stock_issues
PenaltyInventario(df) ==
    (IF ColCount(df, "Stock_Actual", "lt", 0) > 0
     THEN 25 ELSE 0)
    + (IF ColCount(df, "Stock_Actual", "isna", 0) > 0 THEN 10 ELSE 0)

\* duplicated(subset=[Feedback_ID, Transaccion_ID], keep=False).sum()
dup_parciales(df) ==
    Cardinality({i \in 1..Len(df.rows) :
        \E j \in 1..Len(df.rows) :
            /\ j # i
            /\ df.rows[j].Feedback_ID = df.rows[i].Feedback_ID
            /\ df.rows[j].Transaccion_ID = df.rows[i].Transaccion_ID})

\* the penalties of lines 1167-1183: one per entry of duplicates_issues,
\* age_issues and nps_issues, decided by the words the entry contains
PenaltyFeedback(df) ==
    (IF duplicates(df) > 0 THEN 20 ELSE 0)
    + (IF /\ "Feedback_ID" \in df.cols
          /\ "Transaccion_ID" \in df.cols
          /\ dup_parciales(df) > 0
       THEN 20 ELSE 0)
    \* "Edades negativas: n" has neither "imposibles" nor ">" nor "NaN"
    + (IF ColCount(df, "Edad_Cliente", "lt", 0) > 0
       THEN 0 ELSE 0)
    \* "Edades > 110: n"
    + (IF ColCount(df, "Edad_Cliente", "gt", 110) > 0
       THEN 15 ELSE 0)
    \* "Edades < 13 anos: n" has no ">" and no "NaN"
    + (IF ColCount(df, "Edad_Cliente", "lt", 13) > 0
       THEN 0 ELSE 0)
    \* "Edades con NaN: n"
    + (IF ColCount(df, "Edad_Cliente", "isna", 0) > 0 THEN 10 ELSE 0)
    \* "NPS con NaN: n"
    + (IF ColCount(df, "Satisfaccion_NPS", "isna", 0) > 0 THEN 15 ELSE 0)

\* the penalties of lines 1186-1204
PenaltyTransacciones(df) ==
    LET entrega == IF "Tiempo_Entrega_Real" \in df.cols
                   THEN Column(df.rows, "Tiempo_Entrega_Real")
                   ELSE <<>>
        entrega_valida ==
            SelectSeq(entrega, LAMBDA x : ge(x, 0) /\ le(x, 999))
        entrega_100 == Len(SelectSeq(entrega, LAMBDA x : gt(x, 100)))
    IN  \* "SKU fantasma (no en inventario): n"
        (IF /\ "SKU_Fantasma" \in df.cols
            /\ Count([i \in 1..Len(df.rows) |->
                        df.rows[i].SKU_Fantasma = TRUE]) > 0
         THEN 30 ELSE 0)
        \* "SKU con NaN: n"
        + (IF /\ "SKU_ID" \in df.cols
              /\ Count([i \in 1..Len(df.rows) |->
                          df.rows[i].SKU_ID = NaStr]) > 0
           THEN 15 ELSE 0)
        \* "Outliers extremos (>999 dias): n"
        + (IF Len(SelectSeq(entrega, LAMBDA x : gt(x, 999))) > 0
           THEN 20 ELSE 0)
        \* "Entregas retrasadas (>100 dias): n (p%)"
        + (IF entrega_100 > 0
           THEN (IF Shows999(entrega_100) THEN 20 ELSE 10) ELSE 0)
        \* "Rango valido: min - max dias (P95: p95)"
        + (IF Len(entrega_valida) > 0
              /\ (\/ Shows999(SeriesMin(entrega_valida))
                  \/ Shows999(SeriesMax(entrega_valida))
                  \/ P95Shows999(entrega))
           THEN 20 ELSE 0)
        \* "Fecha_Venta con NaT despues de parsing: n"
        + (IF ColCount(df, "Fecha_Venta", "isna", 0) > 0 THEN 15 ELSE 0)

Penalty(df, dataset_name) ==
    IF dataset_name = "Inventario Central" THEN PenaltyInventario(df)
    ELSE IF dataset_name = "Feedback de Clientes" THEN PenaltyFeedback(df)
    ELSE IF dataset_name = "Transacciones Logisticas"
    THEN PenaltyTransacciones(df)
    ELSE 0

RECURSIVE SetToSeq(_)
SetToSeq(S) ==
    IF S = {} THEN <<>>
    ELSE LET x == CHOOSE y \in S : TRUE
         IN  <<x>> \o SetToSeq(S \ {x})

\* sum(hc["missing_pct"].values())
SumMissingPct(df) ==
    LET cs == SetToSeq(df.cols)
    IN  SumSeq([i \in 1..Len(cs) |-> missing_pct(df, cs[i])])

\* score before line 1206, in thousandths; NaN when a missing percentage
\* is NaN (a table without rows)
RawScore(df, dataset_name) ==
    IF df.cols # {} /\ Len(df.rows) = 0 THEN NaN
    ELSE 100000
         - SumMissingPct(df)
         - 500 * duplicates(df)
         - 1000 * Penalty(df, dataset_name)

\* the score without max(0, ...)
health_score_unclamped(df, dataset_name) ==
    LET score == RawScore(df, dataset_name)
    IN  IF score = NaN THEN 0 ELSE RoundDiv(score, 10)

\* score = max(0, round(score, 2)), in hundredths; max(0, nan) is 0
health_score(df, dataset_name) ==
    LET score == RawScore(df, dataset_name)
    IN  IF score = NaN THEN 0 ELSE max2(0, RoundDiv(score, 10))

run_healthcheck(df, required_cols, dataset_name) ==
    [rows |-> Len(df.rows),
     cols |-> Cardinality(df.cols),
     missing_pct |-> [c \in df.cols |-> missing_pct(df, c)],
     duplicates |-> duplicates(df),
     missing_required_cols |-> missing_required_cols(df, required_cols),
     status |-> hc_status(df, required_cols),
     health_score |-> health_score(df, dataset_name)]

\* FILES_CONFIG: the required columns of each dataset; the Transactions
\* are checked with required_cols = None
FB == "Feedback de Clientes"
INV == "Inventario Central"
TRX == "Transacciones Logisticas"

RequiredCols(name) ==
    IF name = FB THEN {"Edad_Cliente", "Rating_Producto", "Satisfaccion_NPS"}
    ELSE IF name = INV
    THEN {"SKU_ID", "Categoria", "Stock_Actual", "Punto_Reorden"}
    ELSE {}

\* ------------------------------------------------------------------------
\* FASE 2: merge, sku_status and derived variables
\* ------------------------------------------------------------------------
MergeInvCols == {"SKU_ID", "Categoria", "Stock_Actual", "Costo_Unitario_USD",
                 "Punto_Reorden", "Lead_Time_Dias"}

\* inv["SKU_ID"].astype(str).str.strip()
NormSku(s) == strip(astype_str(s))

\* a merge on the identifiers as they are in the two tables
MergeRows_raw_key(t, invrows) ==
    LET hits == SelectSeq(invrows, LAMBDA r : r.SKU_ID = t.SKU_ID)
    IN  IF hits = <<>>
        THEN <<[trx |-> t, merge |-> "left_only",
                Costo_Unitario_USD |-> NaN, Lead_Time_Dias |-> NaN]>>
        ELSE [i \in 1..Len(hits) |->
                [trx |-> t, merge |-> "both",
                 Costo_Unitario_USD |-> hits[i].Costo_Unitario_USD,
                 Lead_Time_Dias |-> hits[i].Lead_Time_Dias]]

\* the rows of trx.merge(inv[...], on="SKU_ID", how="left", indicator=True)
\* that come from the transaction t: one per inventory row with the same
\* key, in inventory order, or one left_only row
MergeRows(t, invrows) ==
    LET hits == SelectSeq(invrows,
                          LAMBDA r : NormSku(r.SKU_ID) = NormSku(t.SKU_ID))
    IN  IF hits = <<>>
        THEN <<[trx |-> t, merge |-> "left_only",
                Costo_Unitario_USD |-> NaN, Lead_Time_Dias |-> NaN]>>
        ELSE [i \in 1..Len(hits) |->
                [trx |-> t, merge |-> "both",
                 Costo_Unitario_USD |-> hits[i].Costo_Unitario_USD,
                 Lead_Time_Dias |-> hits[i].Lead_Time_Dias]]

sku_status(m) == IF m.merge = "left_only" THEN "FANTASMA" ELSE "VALIDO"

\* the division without its guard
Margen_Pct_unguarded(Margen_Utilidad, Ingreso) ==
    [num |-> Margen_Utilidad, den |-> Ingreso]

\* Margen_Utilidad / Ingreso if Ingreso > 0 else 0, as an exact fraction
Margen_Pct(Margen_Utilidad, Ingreso) ==
    IF Ingreso > 0 THEN [num |-> Margen_Utilidad, den |-> Ingreso]
    ELSE [num |-> 0, den |-> 1]

\* the flag without the support ticket
Riesgo_Operativo_no_ticket(status, Margen_Utilidad, Brecha, Ticket) ==
    IF \/ status = "FANTASMA"
       \/ Margen_Utilidad < 0
       \/ Brecha > 2
    THEN 1 ELSE 0

Riesgo_Operativo(status, Margen_Utilidad, Brecha_Entrega_Dias, Ticket) ==
    IF \/ status = "FANTASMA"
       \/ Margen_Utilidad < 0
       \/ Brecha_Entrega_Dias > 2
       \/ Ticket = 1
    THEN 1 ELSE 0

clip(x, lo, hi) == IF x < lo THEN lo ELSE IF x > hi THEN hi ELSE x

\* the score without the penalty of a negative margin
Health_Score_no_margin(status, Margen_Utilidad, Brecha, Ticket) ==
    clip(100
         - (IF status = "FANTASMA" THEN 40 ELSE 0)
         - (IF Brecha > 2 THEN 20 ELSE 0)
         - (IF Ticket = 1 THEN 10 ELSE 0),
         0, 100)

\* lines 1551-1556: 100, less one penalty per condition, clipped to [0, 100]
Health_Score(status, Margen_Utilidad, Brecha_Entrega_Dias, Ticket) ==
    clip(100
         - (IF status = "FANTASMA" THEN 40 ELSE 0)
         - (IF Margen_Utilidad < 0 THEN 30 ELSE 0)
         - (IF Brecha_Entrega_Dias > 2 THEN 20 ELSE 0)
         - (IF Ticket = 1 THEN 10 ELSE 0),
         0, 100)

\* lines 1511-1556 on one merged row; a column the Transactions do not have
\* is created as 0 and a null cell is filled with 0
Derive(m) ==
    LET Cantidad_Vendida == fillna(m.trx.Cantidad_Vendida, 0)
        Precio_Venta_Final == fillna(m.trx.Precio_Venta_Final, 0)
        Costo_Envio == fillna(m.trx.Costo_Envio, 0)
        Tiempo_Entrega_Real == fillna(m.trx.Tiempo_Entrega_Real, 0)
        Lead_Time_Dias == fillna(m.Lead_Time_Dias, 0)
        Ticket_Soporte_Abierto == fillna(m.trx.Ticket_Soporte_Abierto, 0)
        Costo_Unitario_USD == fillna(m.Costo_Unitario_USD, 0)
        Ingreso == Cantidad_Vendida * Precio_Venta_Final
        Costo_Total == Cantidad_Vendida * Costo_Unitario_USD + Costo_Envio
        Margen_Utilidad == Ingreso - Costo_Total
        Brecha_Entrega_Dias == Tiempo_Entrega_Real - Lead_Time_Dias
    IN  [Transaccion_ID |-> m.trx.Transaccion_ID,
         SKU_ID |-> NormSku(m.trx.SKU_ID),
         sku_status |-> sku_status(m),
         Cantidad_Vendida |-> Cantidad_Vendida,
         Precio_Venta_Final |-> Precio_Venta_Final,
         Costo_Envio |-> Costo_Envio,
         Tiempo_Entrega_Real |-> Tiempo_Entrega_Real,
         Lead_Time_Dias |-> Lead_Time_Dias,
         Ticket_Soporte_Abierto |-> Ticket_Soporte_Abierto,
         Costo_Unitario_USD |-> Costo_Unitario_USD,
         Ingreso |-> Ingreso,
         Costo_Total |-> Costo_Total,
         Margen_Utilidad |-> Margen_Utilidad,
         Margen_Pct |-> Margen_Pct(Margen_Utilidad, Ingreso),
         Brecha_Entrega_Dias |-> Brecha_Entrega_Dias,
         Riesgo_Operativo |->
             Riesgo_Operativo(sku_status(m), Margen_Utilidad,
                              Brecha_Entrega_Dias, Ticket_Soporte_Abierto),
         Health_Score |->
             Health_Score(sku_status(m), Margen_Utilidad,
                          Brecha_Entrega_Dias, Ticket_Soporte_Abierto)]

\* trx.merge(...): every transaction in order, each with its matches
Merge(trx, inv) ==
    Flatten([i \in 1..Len(trx.rows) |-> MergeRows(trx.rows[i], inv.rows)])

\* the merged table of FASE 2; selecting a column a table does not have
\* raises KeyError
Fase2Merged(inv, trx) ==
    IF \/ "SKU_ID" \notin inv.cols
       \/ "SKU_ID" \notin trx.cols
       \/ ~(MergeInvCols \subseteq inv.cols)
    THEN Raised
    ELSE LET merged0 == Merge(trx, inv)
         IN  [raised |-> FALSE,
              rows |-> [i \in 1..Len(merged0) |-> Derive(merged0[i])]]

\* ------------------------------------------------------------------------
\* FASE 3, section 5: warehouses and satisfaction (lines 1952-2008)
\* ------------------------------------------------------------------------
\* Series.astype(str).str.strip() of a Transaccion_ID
NormId(s) == strip(astype_str(s))

\* the rows of trx.merge(inv[["SKU_ID","Bodega_Origen","Ultima_Revision"]],
\* on="SKU_ID", how="left") that come from the transaction t
TrxInvRows(t, invrows) ==
    LET hits == SelectSeq(invrows,
                          LAMBDA r : NormSku(r.SKU_ID) = NormSku(t.SKU_ID))
    IN  IF hits = <<>>
        THEN <<[Transaccion_ID |-> NormId(t.Transaccion_ID),
                Bodega_Origen |-> NaStr, Ultima_Revision |-> NaN]>>
        ELSE [i \in 1..Len(hits) |->
                [Transaccion_ID |-> NormId(t.Transaccion_ID),
                 Bodega_Origen |-> hits[i].Bodega_Origen,
                 Ultima_Revision |-> hits[i].Ultima_Revision]]

\* the rows of trx_inv.merge(fb[[...]], on="Transaccion_ID", how="left")
\* that come from the row ti, with the columns of lines 1982-1996:
\* the age of the revision in days, and nulls of the two feedback
\* columns filled with 0
TrxInvFbRows(ti, fbrows) ==
    LET hits == SelectSeq(fbrows,
                    LAMBDA f : NormId(f.Transaccion_ID) = ti.Transaccion_ID)
        Antiguedad == IF isna(to_datetime(ti.Ultima_Revision)) THEN NaN
                      ELSE Now - to_datetime(ti.Ultima_Revision)
    IN  IF hits = <<>>
        THEN <<[Bodega_Origen |-> ti.Bodega_Origen,
                Antiguedad_Revision_Dias |-> Antiguedad,
                Ticket_Soporte_Abierto |-> 0, Satisfaccion_NPS |-> 0]>>
        ELSE [i \in 1..Len(hits) |->
                [Bodega_Origen |-> ti.Bodega_Origen,
                 Antiguedad_Revision_Dias |-> Antiguedad,
                 Ticket_Soporte_Abierto |->
                     fillna(hits[i].Ticket_Soporte_Abierto, 0),
                 Satisfaccion_NPS |-> fillna(hits[i].Satisfaccion_NPS, 0)]]

trx_inv_fb(inv, trx, fb) ==
    LET trx_inv == Flatten([i \in 1..Len(trx.rows) |->
                              TrxInvRows(trx.rows[i], inv.rows)])
    IN  Flatten([i \in 1..Len(trx_inv) |->
                   TrxInvFbRows(trx_inv[i], fb.rows)])

\* the "mean" of agg over the values that are not null, in hundredths;
\* NaN without such a value
Mean(vals) ==
    LET v == dropna(vals)
    IN  IF v = <<>> THEN NaN ELSE RoundDiv(100 * SumSeq(v), Len(v))

\* trx_inv_fb.groupby("Bodega_Origen").agg(...).reset_index(): one record
\* for each warehouse of the joined rows (a row without a warehouse is in
\* no group), here as a function of the warehouse
GroupByBodega(rows) ==
    LET keys == {rows[i].Bodega_Origen : i \in 1..Len(rows)} \ {NaStr}
    IN  [b \in keys |->
           LET g == SelectSeq(rows, LAMBDA r : r.Bodega_Origen = b)
           IN  [Antiguedad_Revision_Prom |->
                    Mean([i \in 1..Len(g) |-> g[i].Antiguedad_Revision_Dias]),
                Tasa_Tickets |->
                    Mean([i \in 1..Len(g) |-> g[i].Ticket_Soporte_Abierto]),
                Satisfaccion_Prom |->
                    Mean([i \in 1..Len(g) |-> g[i].Satisfaccion_NPS]),
                Num_Transacciones |-> Len(g)]]

\* lines 1954-2006 on the cleaned tables.  A column that a selection or an
\* assignment reads and the table does not have raises KeyError, and so does
\* a column that both sides of the second merge have: it is renamed with
\* the suffixes _x and _y and line 1993 reads it under its own name
BodegaSummary(inv, trx, fb) ==
    IF \/ ~({"SKU_ID", "Bodega_Origen", "Ultima_Revision"} \subseteq inv.cols)
       \/ ~({"SKU_ID", "Transaccion_ID"} \subseteq trx.cols)
       \/ ~({"Transaccion_ID", "Ticket_Soporte_Abierto", "Satisfaccion_NPS"}
              \subseteq fb.cols)
       \/ {"Ticket_Soporte_Abierto", "Satisfaccion_NPS"} \cap trx.cols # {}
    THEN Raised
    ELSE [raised |-> FALSE,
          bodega_summary |-> GroupByBodega(trx_inv_fb(inv, trx, fb))]

\* ------------------------------------------------------------------------
\* The uploaded files
\* ------------------------------------------------------------------------
FbAllCols == {"Feedback_ID", "Transaccion_ID", "Edad_Cliente",
              "Satisfaccion_NPS", "Rating_Producto", "Ticket_Soporte_Abierto"}
InvAllCols == {"SKU_ID", "Categoria", "Stock_Actual", "Costo_Unitario_USD",
               "Punto_Reorden", "Lead_Time_Dias", "Ultima_Revision",
               "Bodega_Origen"}
TrxAllCols == {"Transaccion_ID", "SKU_ID", "Fecha_Venta", "Cantidad_Vendida",
               "Precio_Venta_Final", "Costo_Envio", "Tiempo_Entrega_Real",
               "Ticket_Soporte_Abierto"}

FbRow(fid, tid, age, nps) ==
    [Feedback_ID |-> fid, Transaccion_ID |-> tid, Edad_Cliente |-> age,
     Satisfaccion_NPS |-> nps, Ticket_Soporte_Abierto |-> 0]

InvRow(sku, lead, cost, stock, rev) ==
    [SKU_ID |-> sku, Lead_Time_Dias |-> lead, Costo_Unitario_USD |-> cost,
     Stock_Actual |-> stock, Ultima_Revision |-> rev,
     Bodega_Origen |-> <<"N">>]

TrxRow(tid, sku, fecha, qty, price, ship, entrega, ticket) ==
    [Transaccion_ID |-> tid, SKU_ID |-> sku, Fecha_Venta |-> fecha,
     Cantidad_Vendida |-> qty, Precio_Venta_Final |-> price,
     Costo_Envio |-> ship, Tiempo_Entrega_Real |-> entrega,
     Ticket_Soporte_Abierto |-> ticket, SKU_Fantasma |-> FALSE]

\* a row of a file that has only the columns cols
Project(r, cols) ==
    [c \in DOMAIN r |->
        IF c \in cols THEN r[c]
        ELSE IF c \in TextCols THEN NaStr
        ELSE IF c = "SKU_Fantasma" THEN FALSE
        ELSE NaN]

\* the files with the columns cols and from lo to hi rows of Rows
Files(cols, Rows, lo, hi) ==
    {[cols |-> cols, rows |-> [i \in 1..k |-> Project(t[i], cols)]] :
        <<k, t>> \in UNION {{<<n, u>> : u \in [1..n -> Rows]} : n \in lo..hi}}

MaxFbRows == 2
MaxInvRows == 2
MaxIqrRows == 5
MaxTrxRows == 2
MaxReconInvRows == 2
MaxReconTrxRows == 1

A == <<"A">>
T == <<"T">>

FbColSets == {FbAllCols,
              FbAllCols \ {"Feedback_ID", "Transaccion_ID"},
              FbAllCols \ {"Edad_Cliente"},
              FbAllCols \ {"Satisfaccion_NPS"}}
FbRowDomain ==
    {FbRow(<<"F">>, T, a, 500) : a \in {NaN, -5, 5, 20, 195}}
    \cup {FbRow(<<"F">>, T, 20, n) : n \in {NaN, -500, 9500, 95000}}
    \cup {FbRow(<<"F", " ">>, T, a, 500) : a \in {5, 20}}
    \cup {FbRow(NaStr, NaStr, NaN, NaN)}
FbFiles ==
    UNION {Files(cs, FbRowDomain, 0, MaxFbRows) : cs \in FbColSets}

\* files of scores on one scale or on several, long enough for a score
\* strictly between the minimum and the maximum
MaxNpsRows == 3
NpsFiles ==
    Files(FbAllCols \ {"Feedback_ID", "Transaccion_ID"},
          {FbRow(<<"F">>, T, 20, n) :
              n \in {NaN, -500, 700, 9500, 10000, 30000}},
          0, MaxNpsRows)

InvColSets == {InvAllCols,
               InvAllCols \ {"Lead_Time_Dias"},
               InvAllCols \ {"Costo_Unitario_USD"},
               InvAllCols \ {"Stock_Actual"},
               InvAllCols \ {"Ultima_Revision"}}
InvRowDomain ==
    {InvRow(A, l, 4, s, 50) : l \in {NaN, 5}, s \in {NaN, -6, 4, 8}}
    \cup {InvRow(A, 5, c, 4, 50) : c \in {NaN, 0}}
    \cup {InvRow(A, 5, 4, 4, BadDate)}
\* files long enough for the interquartile fences to remove a row
IqrValues == {1, 3, 9}
IqrRowDomain ==
    {InvRow(A, 5, c, 4, 50) : c \in IqrValues}
IqrLeadRowDomain ==
    {InvRow(A, l, 4, 4, 50) : l \in IqrValues}
InvFiles ==
    UNION {Files(cs, InvRowDomain, 0, MaxInvRows) : cs \in InvColSets}
    \cup Files(InvAllCols, IqrRowDomain, MaxIqrRows - 1, MaxIqrRows)
    \cup Files(InvAllCols, IqrLeadRowDomain, MaxIqrRows - 1, MaxIqrRows)

TrxColSets == {TrxAllCols,
               TrxAllCols \ {"SKU_ID"},
               TrxAllCols \ {"Tiempo_Entrega_Real"},
               TrxAllCols \ {"Costo_Envio"}}
TrxRowDomain ==
    {TrxRow(T, sku, 50, 2, 10, 1, e, 0) :
        sku \in {A, <<"C">>}, e \in {3, 130, 1000}}
    \cup {TrxRow(T, <<"A", " ">>, 50, 2, 10, 1, e, 0) : e \in {3, 130}}
    \cup {TrxRow(T, sku, 50, 2, 10, 1, 3, 0) : sku \in {NaStr, <<" ">>}}
    \cup {TrxRow(T, A, 50, -1, 10, NaN, 3, 0),
          TrxRow(T, A, 50, -1, 10, 1, 110, 0),
          TrxRow(T, A, 50, -1, 10, 1, 3, 0),
          TrxRow(T, A, 200, 2, 10, 1, 3, 0),
          TrxRow(T, A, BadDate, 2, 10, 1, 3, 0)}
TrxFiles ==
    UNION {Files(cs, TrxRowDomain, 0, MaxTrxRows) : cs \in TrxColSets}
TrxInvFiles ==
    {None}
    \cup Files(InvAllCols, {InvRow(A, 5, 4, 4, 50)}, 1, 1)
    \cup Files(InvAllCols \ {"Stock_Actual"}, {InvRow(A, 5, 4, 4, 50)}, 1, 1)

ReconInvFiles ==
    UNION {Files(cs, {InvRow(sku, 5, 4, 4, 50) :
                        sku \in {A, <<" ", "A">>}},
                 0, MaxReconInvRows) :
           cs \in {InvAllCols, InvAllCols \ {"Costo_Unitario_USD"}}}
ReconTrxRowDomain ==
    {TrxRow(T, A, 50, 2, p, 1, e, k) :
        p \in {1, 10}, e \in {3, 9}, k \in {0, 1}}
    \cup {TrxRow(T, <<"C">>, 50, 2, 10, 1, 3, 0),
          TrxRow(T, <<"C">>, 50, 2, 1, 1, 9, 1),
          TrxRow(T, <<"A", " ">>, 50, 2, 10, 1, 3, 0),
          TrxRow(T, A, 50, NaN, 10, 1, 3, 0),
          TrxRow(T, A, 50, 2, NaN, 1, 3, 0),
          TrxRow(T, A, 50, 2, 10, NaN, 3, 0),
          TrxRow(T, A, 50, 2, 10, 1, NaN, 0),
          TrxRow(T, A, 50, 2, 10, 1, 3, NaN),
          TrxRow(T, A, 50, 2, 10, 1, 3, 2)}
ReconTrxFiles ==
    UNION {Files(cs, ReconTrxRowDomain, 0, MaxReconTrxRows) :
           cs \in {TrxAllCols, TrxAllCols \ {"Ticket_Soporte_Abierto"}}}

\* the three files of a run that reaches the last section
MaxSessRows == 1
SessFbFiles ==
    Files(FbAllCols,
          {[FbRow(<<"F">>, T, 20, 500) EXCEPT !.Ticket_Soporte_Abierto = k] :
              k \in {0, 1}},
          0, MaxSessRows)
SessInvFiles ==
    Files(InvAllCols,
          {[InvRow(A, 5, 4, 4, 50) EXCEPT !.Bodega_Origen = b] :
              b \in {<<"N">>, <<"S">>}}
          \cup {InvRow(<<" ", "A">>, 5, 4, 4, 50)},
          0, MaxSessRows)
SessTrxFiles ==
    UNION {Files(cs, {TrxRow(T, sku, 50, 2, 10, 1, 3, 0) :
                        sku \in {A, <<"C">>}},
                 0, MaxSessRows) :
           cs \in {TrxAllCols, TrxAllCols \ {"Ticket_Soporte_Abierto"}}}

\* ------------------------------------------------------------------------
\* The script: one run over the uploaded files
\* ------------------------------------------------------------------------
\* generar: the button "Generar analisis" was pressed for this run, with an
\* API key typed; bodega_df: what the button's block read from the session
\* state in this run (<<>> is None); session_state: st.session_state, which
\* Streamlit keeps from one run of the script to the next; logger: the steps
\* of a CleaningLogger object on its own, and summary: the lines its
\* get_summary_text last returned (<<>> before the first call)
VARIABLES feedback_file, inventario_file, transacciones_file,
          datasets, health_status, inventario_limpio, hc_raw,
          merged, has_merged, pc,
          generar, bodega_df, session_state,
          logger, summary

vars == <<feedback_file, inventario_file, transacciones_file,
          datasets, health_status, inventario_limpio, hc_raw,
          merged, has_merged, pc,
          generar, bodega_df, session_state,
          logger, summary>>

\* the locals of a run before line 1216
RunStart ==
    /\ datasets = <<>>
    /\ health_status = <<>>
    /\ inventario_limpio = None
    /\ hc_raw = <<>>
    /\ merged = <<>>
    /\ has_merged = FALSE
    /\ logger = <<>>
    /\ summary = <<>>

Init ==
    /\ \/ /\ feedback_file \in FbFiles
          /\ inventario_file = None
          /\ transacciones_file = None
       \/ /\ feedback_file = None
          /\ inventario_file \in InvFiles
          /\ transacciones_file = None
       \/ /\ feedback_file = None
          /\ inventario_file \in TrxInvFiles
          /\ transacciones_file \in TrxFiles
       \/ /\ feedback_file = None
          /\ inventario_file \in ReconInvFiles
          /\ transacciones_file \in ReconTrxFiles
       \/ /\ feedback_file \in SessFbFiles
          /\ inventario_file \in SessInvFiles
          /\ transacciones_file \in SessTrxFiles
    /\ RunStart
    /\ generar = FALSE
    /\ bodega_df = <<>>
    /\ session_state = <<>>
    /\ pc = "load_feedback"

\* d[k] = v of a dict
Put(d, k, v) == [x \in DOMAIN d \cup {k} |-> IF x = k THEN v ELSE d[x]]

\* one iteration of the loop over FILES_CONFIG, or the Transactions block
Load(name, file, res, next) ==
    IF file = None
    THEN /\ health_status' = Put(health_status, name, "missing")
         /\ pc' = next
         /\ UNCHANGED <<datasets, inventario_limpio>>
    ELSE IF res.raised
    THEN /\ pc' = "crashed"
         /\ UNCHANGED <<datasets, health_status, inventario_limpio>>
    ELSE LET health_clean ==
                 [hc |-> run_healthcheck(res.clean, RequiredCols(name), name),
                  filas_eliminadas |-> res.filas_eliminadas,
                  cleaning_log |-> res.cleaning_log]
         IN  /\ datasets' = Put(datasets, name,
                                [raw |-> res.raw, clean |-> res.clean,
                                 health |-> health_clean])
             /\ health_status' = Put(health_status, name,
                                     health_clean.hc.status)
             /\ inventario_limpio' =
                    IF name = INV THEN res.clean ELSE inventario_limpio
             /\ pc' = next

LoadFeedback ==
    /\ pc = "load_feedback"
    /\ Load(FB, feedback_file, cargar_feedback(feedback_file),
            "load_inventario")
    /\ UNCHANGED <<generar, bodega_df, session_state>>
    /\ UNCHANGED <<logger, summary>>
    /\ UNCHANGED <<feedback_file, inventario_file, transacciones_file,
                   hc_raw, merged, has_merged>>

LoadInventario ==
    /\ pc = "load_inventario"
    /\ Load(INV, inventario_file, cargar_inventario(inventario_file),
            "load_transacciones")
    /\ UNCHANGED <<generar, bodega_df, session_state>>
    /\ UNCHANGED <<logger, summary>>
    /\ UNCHANGED <<feedback_file, inventario_file, transacciones_file,
                   hc_raw, merged, has_merged>>

\* the Transactions block handing the uploaded Inventory to the cleaner
LoadTransacciones_raw_inventory ==
    /\ pc = "load_transacciones"
    /\ Load(TRX, transacciones_file,
            cargar_transacciones(transacciones_file, inventario_file),
            "healthcheck")
    /\ UNCHANGED <<generar, bodega_df, session_state>>
    /\ UNCHANGED <<logger, summary>>
    /\ UNCHANGED <<feedback_file, inventario_file, transacciones_file,
                   hc_raw, merged, has_merged>>

LoadTransacciones ==
    /\ pc = "load_transacciones"
    /\ Load(TRX, transacciones_file,
            cargar_transacciones(transacciones_file, inventario_limpio),
            "healthcheck")
    /\ UNCHANGED <<generar, bodega_df, session_state>>
    /\ UNCHANGED <<logger, summary>>
    /\ UNCHANGED <<feedback_file, inventario_file, transacciones_file,
                   hc_raw, merged, has_merged>>

datasets_disponibles ==
    {k \in DOMAIN health_status : health_status[k] = "ok"}

\* lines 1267-1278: st.stop() without an available dataset, else the
\* health check of every available raw table
Healthcheck ==
    /\ pc = "healthcheck"
    /\ IF datasets_disponibles = {}
       THEN /\ pc' = "stopped"
            /\ UNCHANGED hc_raw
       ELSE /\ pc' = "fase2"
            /\ hc_raw' = [name \in datasets_disponibles |->
                            run_healthcheck(datasets[name].raw,
                                            RequiredCols(name), name)]
    /\ UNCHANGED <<generar, bodega_df, session_state>>
    /\ UNCHANGED <<logger, summary>>
    /\ UNCHANGED <<feedback_file, inventario_file, transacciones_file,
                   datasets, health_status, inventario_limpio,
                   merged, has_merged>>

Fase2 ==
    /\ pc = "fase2"
    /\ IF INV \in datasets_disponibles /\ TRX \in datasets_disponibles
       THEN LET res == Fase2Merged(datasets[INV].clean, datasets[TRX].clean)
            IN  IF res.raised
                THEN /\ pc' = "crashed"
                     /\ UNCHANGED <<merged, has_merged>>
                ELSE /\ merged' = res.rows
                     /\ has_merged' = TRUE
                     /\ pc' = "fase3"
       ELSE /\ pc' = "fase3"
            /\ UNCHANGED <<merged, has_merged>>
    /\ UNCHANGED <<generar, bodega_df, session_state>>
    /\ UNCHANGED <<logger, summary>>
    /\ UNCHANGED <<feedback_file, inventario_file, transacciones_file,
                   datasets, health_status, inventario_limpio, hc_raw>>

\* lines 1604-1637: the identifiers of fb and trx are normalised (KeyError
\* without the column), then st.stop() unless FASE 2 produced merged
Fase3 ==
    /\ pc = "fase3"
    /\ pc' = IF \/ /\ FB \in datasets_disponibles
                   /\ "Transaccion_ID" \notin datasets[FB].clean.cols
                \/ /\ TRX \in datasets_disponibles
                   /\ ~({"Transaccion_ID", "SKU_ID"}
                           \subseteq datasets[TRX].clean.cols)
             THEN "crashed"
             ELSE IF ~has_merged THEN "stopped"
             ELSE "storytelling"
    /\ UNCHANGED <<generar, bodega_df, session_state>>
    /\ UNCHANGED <<logger, summary>>
    /\ UNCHANGED <<feedback_file, inventario_file, transacciones_file,
                   datasets, health_status, inventario_limpio, hc_raw,
                   merged, has_merged>>

\* lines 1640-1950, sections 1 to 4: figures and exports of merged, fb_sku
\* and the inv of FASE 2, with st.stop() when inv has no Categoria.  The
\* columns that these sections only display (Ciudad_Destino and the like)
\* are taken to be in the files
Storytelling ==
    /\ pc = "storytelling"
    /\ pc' = IF "Categoria" \in datasets[INV].clean.cols
             THEN "bodegas" ELSE "stopped"
    /\ UNCHANGED <<generar, bodega_df, session_state>>
    /\ UNCHANGED <<logger, summary>>
    /\ UNCHANGED <<feedback_file, inventario_file, transacciones_file,
                   datasets, health_status, inventario_limpio, hc_raw,
                   merged, has_merged>>

\* lines 1952-2078, section 5: the three cleaned tables are read from
\* datasets (KeyError for a dataset that was not uploaded), the summary by
\* warehouse is computed, stored in the session state and displayed
RelacionBodegas ==
    /\ pc = "bodegas"
    /\ IF ~({INV, TRX, FB} \subseteq DOMAIN datasets)
       THEN /\ pc' = "crashed"
            /\ UNCHANGED session_state
       ELSE LET res == BodegaSummary(datasets[INV].clean,
                                     datasets[TRX].clean,
                                     datasets[FB].clean)
            IN  IF res.raised
                THEN /\ pc' = "crashed"
                     /\ UNCHANGED session_state
                ELSE /\ session_state' = Put(session_state, "bodega_summary",
                                             res.bodega_summary)
                     /\ pc' = "done"
    /\ UNCHANGED <<generar, bodega_df>>
    /\ UNCHANGED <<logger, summary>>
    /\ UNCHANGED <<feedback_file, inventario_file, transacciones_file,
                   datasets, health_status, inventario_limpio, hc_raw,
                   merged, has_merged>>

Next ==
    \/ LoadFeedback
    \/ LoadInventario
    \/ LoadTransacciones
    \/ Healthcheck
    \/ Fase2
    \/ Fase3
    \/ Storytelling
    \/ RelacionBodegas

Spec == Init /\ [][Next]_vars

\* ------------------------------------------------------------------------
\* A session: the script runs again on every interaction
\* ------------------------------------------------------------------------
\* what the file uploaders return in a run of a session
SessUploads ==
    /\ feedback_file' \in {None} \cup SessFbFiles
    /\ inventario_file' \in {None} \cup SessInvFiles
    /\ transacciones_file' \in {None} \cup SessTrxFiles

SessionInit ==
    /\ feedback_file \in {None} \cup SessFbFiles
    /\ inventario_file \in {None} \cup SessInvFiles
    /\ transacciones_file \in {None} \cup SessTrxFiles
    /\ RunStart
    /\ generar \in BOOLEAN
    /\ bodega_df = <<>>
    /\ session_state = <<>>
    /\ pc = "groq"

\* lines 152-186: with the button pressed and a key typed, the block reads
\* st.session_state.get("bodega_summary") and sends it to the text
\* generation unless it is None or empty; every exception is caught
GenerarAnalisis ==
    /\ pc = "groq"
    /\ bodega_df' = IF generar /\ "bodega_summary" \in DOMAIN session_state
                    THEN <<session_state["bodega_summary"]>>
                    ELSE <<>>
    /\ pc' = "load_feedback"
    /\ UNCHANGED <<logger, summary>>
    /\ UNCHANGED <<feedback_file, inventario_file, transacciones_file,
                   datasets, health_status, inventario_limpio, hc_raw,
                   merged, has_merged, generar, session_state>>

\* an interaction after a run has ended (at the end of the script, by
\* st.stop() or by an exception): the script runs again from its first
\* line with what the widgets hold then; only the session state is kept
Rerun ==
    /\ pc \in {"done", "stopped", "crashed"}
    /\ SessUploads
    /\ generar' \in BOOLEAN
    /\ datasets' = <<>>
    /\ health_status' = <<>>
    /\ inventario_limpio' = None
    /\ hc_raw' = <<>>
    /\ merged' = <<>>
    /\ has_merged' = FALSE
    /\ bodega_df' = <<>>
    /\ pc' = "groq"
    /\ UNCHANGED <<session_state, logger, summary>>

SessionNext ==
    \/ GenerarAnalisis
    \/ LoadFeedback
    \/ LoadInventario
    \/ LoadTransacciones
    \/ Healthcheck
    \/ Fase2
    \/ Fase3
    \/ Storytelling
    \/ RelacionBodegas
    \/ Rerun

SessionSpec == SessionInit /\ [][SessionNext]_vars

\* ------------------------------------------------------------------------
\* Runs with the files of one cleaner
\* ------------------------------------------------------------------------
FirstRun ==
    /\ RunStart
    /\ generar = FALSE
    /\ bodega_df = <<>>
    /\ session_state = <<>>
    /\ pc = "load_feedback"

FeedbackInit ==
    /\ feedback_file \in FbFiles \cup NpsFiles
    /\ inventario_file = None
    /\ transacciones_file = None
    /\ FirstRun

InventarioInit ==
    /\ feedback_file = None
    /\ inventario_file \in InvFiles
    /\ transacciones_file = None
    /\ FirstRun

TransaccionesInit ==
    /\ feedback_file = None
    /\ inventario_file \in TrxInvFiles
    /\ transacciones_file \in TrxFiles
    /\ FirstRun

\* the steps of a run that has no reconciled table
UnreconciledNext ==
    \/ LoadFeedback
    \/ LoadInventario
    \/ LoadTransacciones
    \/ Healthcheck
    \/ Fase2
    \/ Fase3

FeedbackSpec == FeedbackInit /\ [][UnreconciledNext]_vars

InventarioSpec == InventarioInit /\ [][UnreconciledNext]_vars

TransaccionesSpec == TransaccionesInit /\ [][Next]_vars

\* runs with an Inventory alone or with Transactions and their Inventory
CleanersInit == InventarioInit \/ TransaccionesInit

CleanersSpec == CleanersInit /\ [][Next]_vars

\* runs with an Inventory some of whose products the cleaner removes (cost
\* 0) and Transactions of the products of the file
MaxOrdInvRows == 2
MaxOrdTrxRows == 2
OrdInvFiles ==
    Files(InvAllCols,
          {InvRow(A, 5, 4, 4, 50), InvRow(<<"C">>, 5, 0, 4, 50)},
          0, MaxOrdInvRows)
OrdTrxFiles ==
    Files(TrxAllCols,
          {TrxRow(T, sku, 50, 2, 10, 1, e, 0) :
              sku \in {A, <<"C">>}, e \in {3, 130}},
          0, MaxOrdTrxRows)

OrderingInit ==
    /\ feedback_file = None
    /\ inventario_file \in OrdInvFiles
    /\ transacciones_file \in OrdTrxFiles
    /\ FirstRun

OrderingSpec == OrderingInit /\ [][Next]_vars

\* ------------------------------------------------------------------------
\* A CleaningLogger on its own: any sequence of log_step calls, with
\* get_summary_text called at any point
\* ------------------------------------------------------------------------
MaxSteps == 2
MaxLogRows == 3
StepNames == {"Eliminar Duplicados Completos", "Eliminar Cantidad Negativa Residual"}

LoggerInit ==
    /\ feedback_file = None
    /\ inventario_file = None
    /\ transacciones_file = None
    /\ RunStart
    /\ generar = FALSE
    /\ bodega_df = <<>>
    /\ session_state = <<>>
    /\ pc = "logger"

LogStep ==
    /\ pc = "logger"
    /\ Len(logger) < MaxSteps
    /\ \E step_name \in StepNames, rows_before \in 0..MaxLogRows :
          \E rows_after \in 0..rows_before :
             logger' = log_step(logger, step_name, rows_before, rows_after,
                                "razon")
    /\ UNCHANGED <<summary, feedback_file, inventario_file,
                   transacciones_file, datasets, health_status,
                   inventario_limpio, hc_raw, merged, has_merged, pc,
                   generar, bodega_df, session_state>>

GetSummaryText ==
    /\ pc = "logger"
    /\ summary' = get_summary_text(logger)
    /\ UNCHANGED <<logger, feedback_file, inventario_file,
                   transacciones_file, datasets, health_status,
                   inventario_limpio, hc_raw, merged, has_merged, pc,
                   generar, bodega_df, session_state>>

LoggerNext == LogStep \/ GetSummaryText

LoggerSpec == LoggerInit /\ [][LoggerNext]_vars

\* ------------------------------------------------------------------------
\* Properties
\* ------------------------------------------------------------------------
Range(s) == {s[i] : i \in 1..Len(s)}

\* every health report of the run with the table and the dataset it is of
Reports ==
    {<<datasets[n].health.hc, datasets[n].clean, n>> : n \in DOMAIN datasets}
    \cup {<<hc_raw[n], datasets[n].raw, n>> : n \in DOMAIN hc_raw}

\* C1: in the reconciled table a row is FANTASMA exactly when the
\* identifier of its transaction, cast to text and stripped, is not among
\* the cast and stripped identifiers of the cleaned Inventory, and VALIDO
\* otherwise.
C1_PhantomIffAbsent ==
    has_merged =>
        \A i \in 1..Len(merged) :
            /\ merged[i].sku_status \in {"FANTASMA", "VALIDO"}
            /\ merged[i].sku_status = "FANTASMA"
                 <=> merged[i].SKU_ID \notin
                        {strip(astype_str(r.SKU_ID)) :
                            r \in Range(datasets[INV].clean.rows)}

\* a transaction whose identifier needs the strip is VALIDO next to one
\* that is FANTASMA
C1_Witness ==
    /\ has_merged
    /\ \E t \in Range(datasets[TRX].clean.rows) :
          /\ t.SKU_ID # strip(t.SKU_ID)
          /\ \E i \in 1..Len(merged) :
                /\ merged[i].SKU_ID = strip(t.SKU_ID)
                /\ merged[i].sku_status = "VALIDO"
    /\ \E i \in 1..Len(merged) : merged[i].sku_status = "FANTASMA"

\* C2: the reconciled table has exactly one row per row of the cleaned
\* Transactions, whatever the cleaned Inventory.
C2_OneRowPerTransaction ==
    has_merged => Len(merged) = Len(datasets[TRX].clean.rows)

\* the cleaner of a dataset applied to its own cleaned output, with the
\* same cleaned Inventory and the same processing instant
Recleaned(n) ==
    IF n = FB THEN cargar_feedback(datasets[n].clean)
    ELSE IF n = INV THEN cargar_inventario(datasets[n].clean)
    ELSE cargar_transacciones(datasets[n].clean, inventario_limpio)

\* C3: a cleaner applied to its own cleaned output removes no further row.
C3_Idempotent ==
    \A n \in DOMAIN datasets :
        ~Recleaned(n).raised =>
            Len(Recleaned(n).clean.rows) = Len(datasets[n].clean.rows)

\* C4: the cleaned table has at most the rows of the raw table, and the
\* removed-row count is their difference and is not negative.
C4_CleanedNotLonger ==
    \A n \in DOMAIN datasets :
        /\ Len(datasets[n].clean.rows) <= Len(datasets[n].raw.rows)
        /\ datasets[n].health.filas_eliminadas
             = Len(datasets[n].raw.rows) - Len(datasets[n].clean.rows)
        /\ datasets[n].health.filas_eliminadas >= 0

\* each of the three cleaners has removed a row of its file
C4_Witness ==
    \E n \in DOMAIN datasets :
        /\ datasets[n].health.filas_eliminadas > 0
        /\ Len(datasets[n].clean.rows) > 0

\* C5: the rows-after count of the last record of a non-empty Cleaning Log
\* is the number of rows of the cleaned table.
C5_LastRowsAfter ==
    \A n \in DOMAIN datasets :
        LET pasos == datasets[n].health.cleaning_log.pasos
        IN  pasos # <<>> =>
              pasos[Len(pasos)].filas_despues = Len(datasets[n].clean.rows)

\* C6: the removed counts of the records of the Cleaning Log add up to
\* the number of rows the cleaner removed.
C6_NoSilentLoss ==
    \A n \in DOMAIN datasets :
        datasets[n].health.cleaning_log.total_filas_eliminadas
            = Len(datasets[n].raw.rows) - Len(datasets[n].clean.rows)

\* C7: every health score lies in [0, 100] (in hundredths), for the
\* three dataset kinds and for an unknown kind.
C7_ScoreInRange ==
    \A rep \in Reports :
        /\ rep[1].health_score >= 0
        /\ rep[1].health_score <= 10000
        /\ health_score(rep[2], "Otro") >= 0
        /\ health_score(rep[2], "Otro") <= 10000

\* the penalties of a report add up to more than 100
C7_Witness ==
    \E rep \in Reports :
        /\ RawScore(rep[2], rep[3]) # NaN
        /\ RawScore(rep[2], rep[3]) < 0
        /\ rep[1].health_score = 0

\* C8: the status is invalid exactly when a required column is absent
\* from the table, whatever the score, and missing_required_cols is the
\* set of the absent required columns.
C8_StatusIffMissing ==
    \A rep \in Reports :
        /\ rep[1].status \in {"ok", "invalid"}
        /\ rep[1].status = "invalid"
             <=> \E c \in RequiredCols(rep[3]) : c \notin rep[2].cols
        /\ rep[1].missing_required_cols
             = {c \in RequiredCols(rep[3]) : c \notin rep[2].cols}

\* a table with every required column and score 0 is ok while a table
\* with score 100 and a required column absent is invalid
C8_Witness ==
    /\ \E rep \in Reports :
          rep[1].status = "ok" /\ rep[1].health_score = 0
    /\ \E rep \in Reports :
          /\ rep[1].status = "invalid"
          /\ rep[1].health_score = 10000
          /\ rep[1].missing_required_cols # {}

\* C9: the derived fields of every reconciled row, over the cells of its
\* transaction with nulls as 0 and over a unit cost that is 0 for FANTASMA.
C9_DerivedFields ==
    has_merged =>
        \A i \in 1..Len(merged) :
            LET m == merged[i]
            IN  /\ \E t \in Range(datasets[TRX].clean.rows) :
                      /\ m.Cantidad_Vendida
                           = (IF t.Cantidad_Vendida = NaN THEN 0
                              ELSE t.Cantidad_Vendida)
                      /\ m.Precio_Venta_Final
                           = (IF t.Precio_Venta_Final = NaN THEN 0
                              ELSE t.Precio_Venta_Final)
                      /\ m.Costo_Envio
                           = (IF t.Costo_Envio = NaN THEN 0
                              ELSE t.Costo_Envio)
                      /\ m.Tiempo_Entrega_Real
                           = (IF t.Tiempo_Entrega_Real = NaN THEN 0
                              ELSE t.Tiempo_Entrega_Real)
                /\ m.sku_status = "FANTASMA" => m.Costo_Unitario_USD = 0
                /\ m.Ingreso = m.Cantidad_Vendida * m.Precio_Venta_Final
                /\ m.Costo_Total
                     = m.Cantidad_Vendida * m.Costo_Unitario_USD
                       + m.Costo_Envio
                /\ m.Margen_Utilidad = m.Ingreso - m.Costo_Total
                /\ m.Margen_Pct
                     = (IF m.Ingreso > 0
                        THEN [num |-> m.Margen_Utilidad, den |-> m.Ingreso]
                        ELSE [num |-> 0, den |-> 1])
                /\ m.Brecha_Entrega_Dias
                     = m.Tiempo_Entrega_Real - m.Lead_Time_Dias
                /\ NaN \notin {m.Ingreso, m.Costo_Total, m.Margen_Utilidad,
                               m.Brecha_Entrega_Dias, m.Costo_Unitario_USD,
                               m.Lead_Time_Dias}

\* a FANTASMA row with an income and a unit cost of 0 next to a VALIDO row
\* that carries the unit cost of the Inventory
C9_Witness ==
    /\ has_merged
    /\ \E i \in 1..Len(merged) :
          /\ merged[i].sku_status = "FANTASMA"
          /\ merged[i].Ingreso > 0
          /\ merged[i].Costo_Unitario_USD = 0
          /\ merged[i].Margen_Utilidad = merged[i].Ingreso - merged[i].Costo_Envio
    /\ \E i \in 1..Len(merged) :
          /\ merged[i].sku_status = "VALIDO"
          /\ merged[i].Costo_Unitario_USD > 0
          /\ merged[i].Ingreso > 0

\* C10: Riesgo_Operativo is 1 exactly when the row is FANTASMA, or its
\* margin is negative, or its delivery gap exceeds 2, or its ticket flag
\* is 1, and 0 otherwise.
C10_RiskFlag ==
    has_merged =>
        \A i \in 1..Len(merged) :
            LET m == merged[i]
            IN  /\ m.Riesgo_Operativo \in {0, 1}
                /\ m.Riesgo_Operativo = 1
                     <=> \/ m.sku_status = "FANTASMA"
                         \/ m.Margen_Utilidad < 0
                         \/ m.Brecha_Entrega_Dias > 2
                         \/ m.Ticket_Soporte_Abierto = 1

\* a row at risk for its open ticket alone
C10_Witness ==
    /\ has_merged
    /\ \E i \in 1..Len(merged) :
          /\ merged[i].Riesgo_Operativo = 1
          /\ merged[i].sku_status = "VALIDO"
          /\ merged[i].Margen_Utilidad >= 0
          /\ merged[i].Brecha_Entrega_Dias <= 2
          /\ merged[i].Ticket_Soporte_Abierto = 1

\* C11: the Health_Score of every reconciled row is 100 less 40 when the
\* row is FANTASMA, less 30 when its margin is negative, less 20 when its
\* delivery gap exceeds 2 and less 10 when its ticket flag is 1, each once;
\* it lies in [0, 100] and is below 100 exactly when Riesgo_Operativo is 1.
C11_HealthScoreTxn ==
    has_merged =>
        \A i \in 1..Len(merged) :
            LET m == merged[i]
            IN  /\ m.Health_Score
                     = 100
                       - (IF m.sku_status = "FANTASMA" THEN 40 ELSE 0)
                       - (IF m.Margen_Utilidad < 0 THEN 30 ELSE 0)
                       - (IF m.Brecha_Entrega_Dias > 2 THEN 20 ELSE 0)
                       - (IF m.Ticket_Soporte_Abierto = 1 THEN 10 ELSE 0)
                /\ m.Health_Score >= 0
                /\ m.Health_Score <= 100
                /\ m.Health_Score < 100 <=> m.Riesgo_Operativo = 1

\* a VALIDO row that loses the three other penalties and has score 40
C11_Witness ==
    /\ has_merged
    /\ \E i \in 1..Len(merged) :
          /\ merged[i].sku_status = "VALIDO"
          /\ merged[i].Margen_Utilidad < 0
          /\ merged[i].Brecha_Entrega_Dias > 2
          /\ merged[i].Ticket_Soporte_Abierto = 1
          /\ merged[i].Health_Score = 40

\* the (Feedback_ID, Transaccion_ID) pair of a row, cast to text and trimmed
FbPair(r) ==
    <<strip(astype_str(r.Feedback_ID)), strip(astype_str(r.Transaccion_ID))>>

\* C12: in the cleaned Feedback, when the table has the two identifier
\* columns no two rows have the same trimmed pair and every row carries
\* the age of the first row of the file with its pair; when it has the age
\* column every non-null age lies in [13, 110]; when it has the score
\* column every score is non-null and lies in [0, 10].
C12_FeedbackCleaned ==
    FB \in DOMAIN datasets =>
        LET clean == datasets[FB].clean
            raw == datasets[FB].raw
            ids == {"Feedback_ID", "Transaccion_ID"} \subseteq clean.cols
        IN  /\ ids =>
                  \A i, j \in 1..Len(clean.rows) :
                      i # j => FbPair(clean.rows[i]) # FbPair(clean.rows[j])
            /\ ids =>
                  \A i \in 1..Len(clean.rows) :
                      \E f \in 1..Len(raw.rows) :
                          /\ FbPair(raw.rows[f]) = FbPair(clean.rows[i])
                          /\ \A g \in 1..(f - 1) :
                                FbPair(raw.rows[g]) # FbPair(clean.rows[i])
                          /\ raw.rows[f].Edad_Cliente
                               = clean.rows[i].Edad_Cliente
                          /\ "Satisfaccion_NPS" \in clean.cols
                               => raw.rows[f].Satisfaccion_NPS # NaN
            /\ "Edad_Cliente" \in clean.cols =>
                  \A i \in 1..Len(clean.rows) :
                      \/ clean.rows[i].Edad_Cliente = NaN
                      \/ /\ clean.rows[i].Edad_Cliente >= 13
                         /\ clean.rows[i].Edad_Cliente <= 110
            /\ "Satisfaccion_NPS" \in clean.cols =>
                  \A i \in 1..Len(clean.rows) :
                      /\ clean.rows[i].Satisfaccion_NPS # NaN
                      /\ clean.rows[i].Satisfaccion_NPS >= 0
                      /\ clean.rows[i].Satisfaccion_NPS <= 1000

\* a cleaned row whose pair the file has twice, on two different rows
C12_Witness ==
    /\ FB \in DOMAIN datasets
    /\ {"Feedback_ID", "Transaccion_ID", "Edad_Cliente", "Satisfaccion_NPS"}
          \subseteq datasets[FB].clean.cols
    /\ \E i \in 1..Len(datasets[FB].clean.rows) :
          \E f, g \in 1..Len(datasets[FB].raw.rows) :
              /\ f < g
              /\ datasets[FB].raw.rows[f] # datasets[FB].raw.rows[g]
              /\ FbPair(datasets[FB].raw.rows[f])
                   = FbPair(datasets[FB].clean.rows[i])
              /\ FbPair(datasets[FB].raw.rows[g])
                   = FbPair(datasets[FB].clean.rows[i])

\* the Inventory as it enters the stock steps: after the date, lead-time
\* and cost steps
InvBeforeStock(file) ==
    InvCostoIQR(InvCostoCero(InvLeadIQR(InvFechas(Start(file)))))

\* C13: the cleaned Inventory with a Stock_Actual column is made of the
\* rows that passed the lead-time and cost steps, in order, without those
\* of negative stock and null (or absent) lead time, and with every other
\* negative stock replaced by the median of the non-negative stocks (NaN
\* when there is none); no row of it has a negative stock.
C13_NegativeStock ==
    (INV \in DOMAIN datasets /\ "Stock_Actual" \in datasets[INV].clean.cols)
    => LET clean == datasets[INV].clean
           before == InvBeforeStock(datasets[INV].raw).rows
           lead == "Lead_Time_Dias" \in clean.cols
           neg(r) == r.Stock_Actual # NaN /\ r.Stock_Actual < 0
           kept == SelectSeq(before,
                     LAMBDA r : ~(neg(r) /\ (~lead \/ r.Lead_Time_Dias = NaN)))
           nonneg == SelectSeq([i \in 1..Len(kept) |-> kept[i].Stock_Actual],
                               LAMBDA x : x # NaN /\ x >= 0)
       IN  /\ clean.rows
                = [i \in 1..Len(kept) |->
                     IF neg(kept[i])
                     THEN [kept[i] EXCEPT !.Stock_Actual = median(nonneg)]
                     ELSE kept[i]]
           /\ \A i \in 1..Len(clean.rows) : ~neg(clean.rows[i])

\* a row of negative stock and valid lead time is kept with the median of
\* the non-negative stocks of the table
C13_Witness ==
    /\ INV \in DOMAIN datasets
    /\ {"Stock_Actual", "Lead_Time_Dias"} \subseteq datasets[INV].clean.cols
    /\ Len(datasets[INV].clean.rows) = Len(datasets[INV].raw.rows)
    /\ \E i \in 1..Len(datasets[INV].raw.rows) :
          /\ datasets[INV].raw.rows[i].Stock_Actual # NaN
          /\ datasets[INV].raw.rows[i].Stock_Actual < 0
          /\ datasets[INV].raw.rows[i].Lead_Time_Dias # NaN
          /\ datasets[INV].clean.rows[i].Stock_Actual # NaN
          /\ datasets[INV].clean.rows[i].Stock_Actual >= 0

\* a column of a file that is there and has no valid numeric value
NoValidValue(file, c) ==
    /\ c \in file.cols
    /\ \A i \in 1..Len(file.rows) : file.rows[i][c] = NaN

\* C14: an Inventory file whose Lead_Time_Dias or Costo_Unitario_USD
\* column has no valid value is cleaned without an exception, and the
\* interquartile step of that column removes no row.
C14_IqrDegenerateNoOp ==
    (/\ inventario_file # None
     /\ pc \notin {"load_feedback", "load_inventario"}
     /\ \/ NoValidValue(inventario_file, "Lead_Time_Dias")
        \/ NoValidValue(inventario_file, "Costo_Unitario_USD"))
    => /\ INV \in DOMAIN datasets
       /\ \A p \in Range(datasets[INV].health.cleaning_log.pasos) :
             p.nombre \in
                 {"Eliminar Lead_Time_Dias Outliers mediante IQR (Rango Intercuartil)",
                  "Eliminar Outliers de Costos mediante IQR (Rango Intercuartil)"}
             => p.filas_eliminadas = 0

\* the columns each step of the three cleaners reads
StepCols ==
    [nombre \in
       {"Eliminar Duplicados Completos (filas exactamente iguales)"}
       |-> {}]
    @@ [nombre \in
       {"Eliminar Duplicados Parciales (mismo Feedback_ID + Transaccion_ID)"}
       |-> {"Feedback_ID", "Transaccion_ID"}]
    @@ [nombre \in
       {"Eliminar Edades Negativas (< 0)",
        "Eliminar Edades Imposibles (> 110 anos)",
        "Eliminar Edades < 13 anos (menores)"}
       |-> {"Edad_Cliente"}]
    @@ [nombre \in
       {"Aplicar Valor Absoluto a NPS (convertir negativos a positivos)",
        "Normalizar Escala NPS de 0-100 a 0-10",
        "Normalizar Escala NPS No Estandar (> 100) a 0-10",
        "Eliminar Registros con NPS Faltante (NaN)",
        "Eliminar NPS Fuera de Rango [0, 10] (despues de normalizacion)"}
       |-> {"Satisfaccion_NPS"}]
    @@ [nombre \in {"Normalizar Formato de Fecha: Ultima_Revision"}
       |-> {"Ultima_Revision"}]
    @@ [nombre \in
       {"Eliminar Lead_Time_Dias Outliers mediante IQR (Rango Intercuartil)"}
       |-> {"Lead_Time_Dias"}]
    @@ [nombre \in
       {"Eliminar Costos <= $0.00",
        "Eliminar Outliers de Costos mediante IQR (Rango Intercuartil)"}
       |-> {"Costo_Unitario_USD"}]
    @@ [nombre \in
       {"ELIMINAR Stock < 0 IRRECUPERABLE (+ Lead_Time NaN)",
        "IMPUTAR Stock < 0 RECUPERABLE (con Lead_Time valido)"}
       |-> {"Stock_Actual", "Lead_Time_Dias"}]
    @@ [nombre \in {"ELIMINAR Stock < 0 Residual (despues de imputacion)"}
       |-> {"Stock_Actual"}]
    @@ [nombre \in
       {"Normalizar Formato de Fecha: Fecha_Venta",
        "Eliminar Transacciones con Fecha Futura"}
       |-> {"Fecha_Venta"}]
    @@ [nombre \in
       {"Detectar SKU Fantasma (no existe en inventario)",
        "Eliminar Transacciones con SKU Nulo/Vacio"}
       |-> {"SKU_ID"}]
    @@ [nombre \in {"Eliminar Entregas > 999 dias (outliers extremos)"}
       |-> {"Tiempo_Entrega_Real"}]
    @@ [nombre \in
       {"Eliminar Transacciones SOSPECHOSAS (Entrega >120 dias + SKU Fantasma)"}
       |-> {"Tiempo_Entrega_Real", "SKU_ID"}]
    @@ [nombre \in {"Eliminar Cantidad Negativa + Costo_Envio NaN"}
       |-> {"Cantidad_Vendida", "Costo_Envio"}]
    @@ [nombre \in
       {"Eliminar Cantidad Negativa + Entrega > 100 dias (anomalo)"}
       |-> {"Cantidad_Vendida", "Tiempo_Entrega_Real"}]
    @@ [nombre \in {"Eliminar Cantidad Negativa Residual"}
       |-> {"Cantidad_Vendida"}]

\* the rows the logged steps of the dataset n removed; the record of the
\* imputation counts rows it did not remove and is left out
RemovedBySteps(n) ==
    LET pasos == SelectSeq(datasets[n].health.cleaning_log.pasos,
                   LAMBDA p : p.nombre
                       # "IMPUTAR Stock < 0 RECUPERABLE (con Lead_Time valido)")
    IN  SumSeq([i \in 1..Len(pasos) |-> pasos[i].filas_eliminadas])

\* what holds of absent columns: an Inventory file is cleaned unless its
\* Lead_Time_Dias column is there without a valid value, the two other
\* cleaners never raise, a step that reads an absent column removes no row,
\* and every removed row is removed by a logged step
AbsentColumnRulesSkipped ==
    /\ feedback_file # None => ~cargar_feedback(feedback_file).raised
    /\ transacciones_file # None =>
          \A inv \in {None, inventario_limpio} :
              ~cargar_transacciones(transacciones_file, inv).raised
    /\ (inventario_file # None /\ cargar_inventario(inventario_file).raised)
          => NoValidValue(inventario_file, "Lead_Time_Dias")
    /\ \A n \in DOMAIN datasets :
          /\ \A p \in Range(datasets[n].health.cleaning_log.pasos) :
                /\ p.nombre \in DOMAIN StepCols
                /\ \/ StepCols[p.nombre] \subseteq datasets[n].raw.cols
                   \/ p.filas_eliminadas = 0
          /\ Len(datasets[n].raw.rows) - Len(datasets[n].clean.rows)
               = RemovedBySteps(n)

\* C15: a file that lacks some of its expected columns is cleaned without
\* an exception, whichever columns it lacks, and a step that reads an
\* absent column removes no row.
C15_MissingColumnTolerance ==
    /\ (/\ feedback_file # None
        /\ ~(FbAllCols \subseteq feedback_file.cols)
        /\ pc # "load_feedback")
          => FB \in DOMAIN datasets
    /\ (/\ inventario_file # None
        /\ ~(InvAllCols \subseteq inventario_file.cols)
        /\ pc \notin {"load_feedback", "load_inventario"})
          => INV \in DOMAIN datasets
    /\ (/\ transacciones_file # None
        /\ ~(TrxAllCols \subseteq transacciones_file.cols)
        /\ inventario_file # None => INV \in DOMAIN datasets
        /\ pc \notin {"load_feedback", "load_inventario",
                       "load_transacciones"})
          => TRX \in DOMAIN datasets
    /\ \A n \in DOMAIN datasets :
          \A p \in Range(datasets[n].health.cleaning_log.pasos) :
              \/ StepCols[p.nombre] \subseteq datasets[n].raw.cols
              \/ p.filas_eliminadas = 0

\* the columns of a Transactions file (the fallback frame of lines 1617-1621
\* has no Ticket_Soporte_Abierto)
TrxExpectedCols == TrxAllCols \ {"Ticket_Soporte_Abierto"}

\* every uploaded file has its expected columns, and the Inventory has a
\* valid lead time
WellFormedUploads ==
    /\ feedback_file = None \/ feedback_file.cols = FbAllCols
    /\ \/ inventario_file = None
       \/ /\ inventario_file.cols = InvAllCols
          /\ ~NoValidValue(inventario_file, "Lead_Time_Dias")
    /\ transacciones_file = None \/ transacciones_file.cols = TrxExpectedCols

\* Inventory and Transactions are uploaded and Feedback is not
OnlyFeedbackAbsent ==
    /\ feedback_file = None
    /\ inventario_file # None
    /\ transacciones_file # None

\* C16: for every subset of the three files that is uploaded, each
\* well-formed, the run ends or stops without an exception; in particular
\* with Inventory and Transactions uploaded and Feedback absent.
C16_InputsOptional ==
    WellFormedUploads => pc # "crashed"

\* what holds of C16: every other subset of well-formed files ends or stops
\* without an exception, and a run of the subset {Inventory, Transactions}
\* never ends otherwise than by the exception
OtherSubsetsEndCleanly ==
    /\ (WellFormedUploads /\ ~OnlyFeedbackAbsent) => pc # "crashed"
    /\ (WellFormedUploads /\ OnlyFeedbackAbsent) => pc \notin {"done", "stopped"}

\* Inventory or Transactions was not uploaded or is INVALID in this run
EitherUnavailable ==
    \E n \in {INV, TRX} \cap DOMAIN health_status : health_status[n] # "ok"

\* the uploaded Feedback and Transactions have the identifier columns that
\* FASE 3 normalises
HasIdColumns ==
    /\ feedback_file = None \/ "Transaccion_ID" \in feedback_file.cols
    /\ \/ transacciones_file = None
       \/ {"Transaccion_ID", "SKU_ID"} \subseteq transacciones_file.cols

\* C17: the reconciliation runs only with Inventory and Transactions both
\* OK; when either is absent or INVALID it is skipped with everything that
\* depends on it, and the run ends without an exception.
C17_ReconciliationGating ==
    /\ has_merged => {INV, TRX} \subseteq datasets_disponibles
    /\ EitherUnavailable =>
          /\ ~has_merged
          /\ merged = <<>>
          /\ pc \notin {"storytelling", "bodegas", "done", "crashed"}

\* what holds of C17: the gate itself, and the clean end of the run when
\* the uploaded files have their identifier columns
GateSkipsReconciliation ==
    /\ has_merged => {INV, TRX} \subseteq datasets_disponibles
    /\ EitherUnavailable =>
          /\ ~has_merged
          /\ merged = <<>>
          /\ pc \notin {"storytelling", "bodegas", "done"}
          /\ HasIdColumns => pc # "crashed"

\* C18: a dataset that lacks a required column is reported INVALID, for
\* each of the three kinds; a Transactions table without SKU_ID is INVALID,
\* and the reconciliation is skipped for it instead of failing.
C18_MissingRequiredInvalid ==
    /\ \A n \in {FB, INV} \cap DOMAIN datasets :
          ~(RequiredCols(n) \subseteq datasets[n].clean.cols)
             => health_status[n] = "invalid"
    /\ (TRX \in DOMAIN datasets /\ "SKU_ID" \notin datasets[TRX].clean.cols)
          => /\ health_status[TRX] = "invalid"
             /\ pc # "crashed"

\* what holds of C18: Feedback and Inventory without a required column are
\* INVALID, and Transactions are OK whatever their columns
OnlyTransactionsUnchecked ==
    /\ \A n \in {FB, INV} \cap DOMAIN datasets :
          ~(RequiredCols(n) \subseteq datasets[n].clean.cols)
             => health_status[n] = "invalid"
    /\ TRX \in DOMAIN datasets => health_status[TRX] = "ok"

\* the summary by warehouse that the files uploaded in this run give, from
\* the loaders to line 2006; Raised when a file is not uploaded or a step
\* raises
UploadedSummary ==
    IF None \in {feedback_file, inventario_file, transacciones_file}
    THEN Raised
    ELSE LET fb == cargar_feedback(feedback_file)
             inv == cargar_inventario(inventario_file)
         IN  IF fb.raised \/ inv.raised THEN Raised
             ELSE LET trx == cargar_transacciones(transacciones_file,
                                                  inv.clean)
                  IN  IF trx.raised THEN Raised
                      ELSE BodegaSummary(inv.clean, trx.clean, fb.clean)

\* lines 160-164: the block serialises the table it read unless it is None
\* or empty
Serialized == bodega_df # <<>> /\ bodega_df[1] # <<>>

\* C19: a derived table read during a run was computed in that run from
\* the files uploaded in that run; the summary by warehouse that the text
\* generation block reads is never one stored by an earlier run.
C19_NoCrossRunRead ==
    Serialized =>
        /\ ~UploadedSummary.raised
        /\ bodega_df[1] = UploadedSummary.bodega_summary

\* the file uploaded for the dataset n, and what its loader returns for it
\* (the Transactions are cleaned against the cleaned Inventory of the run)
FileOf(n) ==
    IF n = FB THEN feedback_file
    ELSE IF n = INV THEN inventario_file
    ELSE transacciones_file

LoaderOf(n) ==
    IF n = FB THEN cargar_feedback(feedback_file)
    ELSE IF n = INV THEN cargar_inventario(inventario_file)
    ELSE cargar_transacciones(transacciones_file,
             IF inventario_file = None THEN None
             ELSE cargar_inventario(inventario_file).clean)

\* C20: the raw table that a loader returns is the table as read, and no
\* step of the run changes a table once it is stored in datasets: after
\* the reconciliation and the aggregation phases the stored cleaned tables
\* are still what the loaders returned.
C20_CopyOnTransform ==
    /\ [](\A n \in DOMAIN datasets :
             /\ datasets[n].raw = FileOf(n)
             /\ pc \in {"bodegas", "done"}
                   => datasets[n].clean = LoaderOf(n).clean)
    /\ [][\A n \in DOMAIN datasets :
             n \in DOMAIN datasets' /\ datasets'[n] = datasets[n]]_vars

\* a run past FASE 2 and section 5, with reconciled rows and a summary by
\* warehouse, whose cleaners changed a table and whose stored Inventory
\* still has an identifier that FASE 2 strips in its copy
C20_Witness ==
    /\ pc = "done"
    /\ merged # <<>>
    /\ "bodega_summary" \in DOMAIN session_state
    /\ session_state["bodega_summary"] # <<>>
    /\ \E n \in DOMAIN datasets :
          datasets[n].clean.rows # datasets[n].raw.rows
    /\ \E i \in 1..Len(datasets[INV].clean.rows) :
          NormSku(datasets[INV].clean.rows[i].SKU_ID)
             # datasets[INV].clean.rows[i].SKU_ID

\* the Feedback as it enters the age steps: after the two deduplications
FbBeforeEdades(file) == FbDupParciales(FbDupCompletos(Start(file)))

\* the records of the Cleaning Log of the Feedback with the name nombre
FbPasos(nombre) ==
    {p \in Range(datasets[FB].health.cleaning_log.pasos) : p.nombre = nombre}

\* the rows of the Feedback that enter the age steps with an age from lo
\* up to and not including hi
FbAges(lo, hi) ==
    LET rows == FbBeforeEdades(feedback_file).rows
    IN  {i \in 1..Len(rows) :
            /\ rows[i].Edad_Cliente # NaN
            /\ lo <= rows[i].Edad_Cliente
            /\ rows[i].Edad_Cliente < hi}

\* C21: every row with a negative age that survived deduplication is
\* removed at the step "Eliminar Edades Negativas (< 0)": its record has
\* rows_before - rows_after = the number of such rows and a rationale of
\* biological impossibility; the step "< 13" removes only ages in [0, 13).
C21_NegativeAgeStep ==
    (FB \in DOMAIN datasets /\ "Edad_Cliente" \in feedback_file.cols) =>
        /\ Cardinality(FbPasos("Eliminar Edades Negativas (< 0)")) = 1
        /\ \A p \in FbPasos("Eliminar Edades Negativas (< 0)") :
              /\ p.filas_antes - p.filas_despues
                    = Cardinality(FbAges(-1000, 0))
              /\ p.filas_eliminadas = Cardinality(FbAges(-1000, 0))
              /\ p.razon = "Edad negativa es biologicamente imposible."
        /\ Cardinality(FbPasos("Eliminar Edades < 13 anos (menores)")) = 1
        /\ \A p \in FbPasos("Eliminar Edades < 13 anos (menores)") :
              p.filas_eliminadas = Cardinality(FbAges(0, 13))
        /\ \A i \in 1..Len(datasets[FB].clean.rows) :
              ~lt(datasets[FB].clean.rows[i].Edad_Cliente, 0)

\* a file with one row of age -5, removed at the negative-age step, and a
\* row of age 5, removed at the step of the minors
C21_Witness ==
    /\ FB \in DOMAIN datasets
    /\ "Edad_Cliente" \in feedback_file.cols
    /\ \E i \in FbAges(-1000, 0) :
          FbBeforeEdades(feedback_file).rows[i].Edad_Cliente = -5
    /\ \E p \in FbPasos("Eliminar Edades Negativas (< 0)") :
          p.filas_antes - p.filas_despues = 1
    /\ \E p \in FbPasos("Eliminar Edades < 13 anos (menores)") :
          p.filas_eliminadas = 1

\* the Feedback as it enters the scale step (PASO 6A), and as it leaves it
FbBeforeNPS(file) == FbEdades(FbBeforeEdades(file))
FbAfterNPS(file) == FbNPSNormalizar(FbBeforeNPS(file))

\* the absolute scores that enter the scale step, their greatest and least
NpsAbs(file) ==
    [i \in 1..Len(FbBeforeNPS(file).rows) |->
        abs(FbBeforeNPS(file).rows[i].Satisfaccion_NPS)]
NpsM(file) == SeriesMax(NpsAbs(file))
NpsMin(file) == SeriesMin(NpsAbs(file))

\* the score of row i after the scale step
NpsOut(file, i) == FbAfterNPS(file).rows[i].Satisfaccion_NPS

\* the Feedback file of the run has the score column and is loaded
NpsCase ==
    /\ FB \in DOMAIN datasets
    /\ "Satisfaccion_NPS" \in feedback_file.cols

\* C22 as stated: with m the greatest absolute score, every score s becomes
\* |s|/10 when 10 < m <= 100, (|s| - min)/(max - min)*10 when m > 100 and
\* max > min, and |s| when m <= 10; afterwards every score that is not
\* null is in [0, 10] unless m > 100 and max = min.
C22_ScaleDetectionExact ==
    NpsCase =>
        LET f == feedback_file
            m == NpsM(f)
            lo == NpsMin(f)
        IN  /\ Len(FbAfterNPS(f).rows) = Len(FbBeforeNPS(f).rows)
            /\ \A i \in 1..Len(NpsAbs(f)) :
                  IF NpsAbs(f)[i] = NaN THEN NpsOut(f, i) = NaN
                  ELSE IF m > 1000 /\ m <= 10000
                  THEN 10 * NpsOut(f, i) = NpsAbs(f)[i]
                  ELSE IF m > 10000 /\ m > lo
                  THEN (m - lo) * NpsOut(f, i) = (NpsAbs(f)[i] - lo) * 1000
                  ELSE NpsOut(f, i) = NpsAbs(f)[i]
            /\ ~(m > 10000 /\ m = lo) =>
                  \A i \in 1..Len(NpsAbs(f)) :
                      NpsOut(f, i) # NaN =>
                          NpsOut(f, i) >= 0 /\ NpsOut(f, i) <= 1000

\* C22, amended: the same, with the quotient of the two rescalings
\* rounded to two decimals.
C22_ScaleDetection ==
    NpsCase =>
        LET f == feedback_file
            m == NpsM(f)
            lo == NpsMin(f)
        IN  /\ Len(FbAfterNPS(f).rows) = Len(FbBeforeNPS(f).rows)
            /\ \A i \in 1..Len(NpsAbs(f)) :
                  IF NpsAbs(f)[i] = NaN THEN NpsOut(f, i) = NaN
                  ELSE IF m > 1000 /\ m <= 10000
                  THEN NpsOut(f, i) = RoundDiv(NpsAbs(f)[i], 10)
                  ELSE IF m > 10000 /\ m > lo
                  THEN NpsOut(f, i)
                          = RoundDiv((NpsAbs(f)[i] - lo) * 1000, m - lo)
                  ELSE NpsOut(f, i) = NpsAbs(f)[i]
            /\ ~(m > 10000 /\ m = lo) =>
                  \A i \in 1..Len(NpsAbs(f)) :
                      NpsOut(f, i) # NaN =>
                          NpsOut(f, i) >= 0 /\ NpsOut(f, i) <= 1000

\* a file with the scores 7, 100 and 300: the greatest is above 100, and
\* the score 100 becomes 3.17, which is not (100 - 7)/(300 - 7)*10
C22_Witness ==
    /\ NpsCase
    /\ NpsM(feedback_file) = 30000
    /\ NpsMin(feedback_file) = 700
    /\ \E i \in 1..Len(NpsAbs(feedback_file)) :
          /\ NpsAbs(feedback_file)[i] = 10000
          /\ NpsOut(feedback_file, i) = 317

\* the rows of negative stock and valid lead time that enter the stock
\* steps of an Inventory holding no non-negative stock at all
Unimputable(file) ==
    LET before == InvBeforeStock(file).rows
        neg(r) == r.Stock_Actual # NaN /\ r.Stock_Actual < 0
    IN  IF \E i \in 1..Len(before) : before[i].Stock_Actual # NaN /\ ~neg(before[i])
        THEN <<>>
        ELSE SelectSeq(before, LAMBDA r : neg(r) /\ r.Lead_Time_Dias # NaN)

\* C23: a row of negative stock and valid lead time for which no median of
\* non-negative stocks exists is not in the cleaned Inventory, neither with
\* its negative stock nor with a null stock: the cleaned table holds only
\* the rows that entered the stock steps with a null stock.
C23_ResidualDropsUnimputable ==
    (/\ INV \in DOMAIN datasets
     /\ {"Stock_Actual", "Lead_Time_Dias"} \subseteq datasets[INV].clean.cols
     /\ Len(Unimputable(datasets[INV].raw)) > 0)
    => Len(datasets[INV].clean.rows) + Len(Unimputable(datasets[INV].raw))
         <= Len(InvBeforeStock(datasets[INV].raw).rows)

\* the Transactions as they leave the tagging step: dates parsed and every
\* row tagged against the identifiers of df_inventario
TrxTagged(file, df_inventario) ==
    TrxSkuFantasma(TrxFechas(Start(file)), df_inventario)

\* a tagged row none of whose other fields makes a step remove it
OtherwiseValid(r) ==
    /\ r.SKU_ID # NaStr /\ strip(astype_str(r.SKU_ID)) # <<>>
    /\ ~lt(r.Cantidad_Vendida, 0)
    /\ ~gt(r.Fecha_Venta, Now)

\* C24: in the cleaned Transactions of a run with an inventory, no row is
\* tagged phantom with a delivery time above 120, no row has a delivery time
\* above 999, and the phantom-tagged rows are exactly the tagged rows of the
\* file whose delivery time is not above 120 and whose other fields are
\* valid, in order and with their tag.
C24_PhantomDelivery ==
    (TRX \in DOMAIN datasets /\ "SKU_Fantasma" \in datasets[TRX].clean.cols)
    => LET clean == datasets[TRX].clean.rows
           tagged == TrxTagged(datasets[TRX].raw, inventario_limpio).rows
       IN  /\ \A i \in 1..Len(clean) :
                 /\ ~gt(clean[i].Tiempo_Entrega_Real, 999)
                 /\ ~(clean[i].SKU_Fantasma /\ gt(clean[i].Tiempo_Entrega_Real, 120))
           /\ SelectSeq(clean, LAMBDA r : r.SKU_Fantasma)
                = SelectSeq(tagged,
                    LAMBDA r : /\ r.SKU_Fantasma
                               /\ ~gt(r.Tiempo_Entrega_Real, 120)
                               /\ OtherwiseValid(r))

\* of two phantom rows of a file, the one delivered in 130 days is removed
\* and the one delivered in 3 days is kept with its tag
C24_Witness ==
    /\ TRX \in DOMAIN datasets
    /\ "SKU_Fantasma" \in datasets[TRX].clean.cols
    /\ Len(datasets[TRX].raw.rows) = 2
    /\ Len(datasets[TRX].clean.rows) = 1
    /\ \E i \in 1..2 :
          /\ datasets[TRX].raw.rows[i].SKU_ID = <<"C">>
          /\ datasets[TRX].raw.rows[i].Tiempo_Entrega_Real = 130
    /\ datasets[TRX].clean.rows[1].SKU_Fantasma
    /\ datasets[TRX].clean.rows[1].SKU_ID = <<"C">>
    /\ datasets[TRX].clean.rows[1].Tiempo_Entrega_Real = 3

\* C25: in the cleaned Transactions, when the quantity column is present no
\* row has a numeric quantity below 0, and when the identifier column is
\* present no row has a null identifier or one that is empty after trimming.
C25_QuantityAndIdentifier ==
    TRX \in DOMAIN datasets
    => LET clean == datasets[TRX].clean
       IN  /\ "Cantidad_Vendida" \in clean.cols
                => \A i \in 1..Len(clean.rows) :
                      clean.rows[i].Cantidad_Vendida = NaN
                         \/ clean.rows[i].Cantidad_Vendida >= 0
           /\ "SKU_ID" \in clean.cols
                => \A i \in 1..Len(clean.rows) :
                      /\ clean.rows[i].SKU_ID # NaStr
                      /\ strip(clean.rows[i].SKU_ID) # <<>>

\* a file of one negative quantity that only the residual step removes and
\* one blank identifier: both rows are gone
C25_Witness ==
    /\ TRX \in DOMAIN datasets
    /\ {"Cantidad_Vendida", "SKU_ID", "Costo_Envio", "Tiempo_Entrega_Real"} \subseteq datasets[TRX].raw.cols
    /\ Len(datasets[TRX].raw.rows) = 2
    /\ datasets[TRX].raw.rows[1].Cantidad_Vendida = -1
    /\ datasets[TRX].raw.rows[1].Costo_Envio = 1
    /\ datasets[TRX].raw.rows[1].Tiempo_Entrega_Real = 3
    /\ datasets[TRX].raw.rows[2].SKU_ID = <<" ">>
    /\ datasets[TRX].clean.rows = <<>>

\* the names of the log records of the steps that only transform cells
TransformSteps ==
    {"Normalizar Formato de Fecha: Ultima_Revision",
     "Normalizar Formato de Fecha: Fecha_Venta",
     "Detectar SKU Fantasma (no existe en inventario)"}

\* the columns the cleaners parse as dates
DateCols == {"Ultima_Revision", "Fecha_Venta"}

\* the file with every date that cannot be parsed replaced by the date d
WithDates(file, d) ==
    IF file = None THEN None
    ELSE [file EXCEPT
            !.rows = [i \in 1..Len(file.rows) |->
                        [c \in DOMAIN file.rows[i] |->
                            IF c \in DateCols /\ file.rows[i][c] = BadDate
                            THEN d
                            ELSE file.rows[i][c]]]]

\* the table of name n has a date column and so a date-parsing step
HasDateStep(n) ==
    \/ n = INV /\ "Ultima_Revision" \in datasets[n].raw.cols
    \/ n = TRX /\ "Fecha_Venta" \in datasets[n].raw.cols

\* C26: the date-parsing steps of the Inventory and Transactions cleaners
\* and the phantom-tagging step are logged with rows_before = rows_after =
\* the rows of the file; a date that cannot be parsed is null in the cleaned
\* table, and the cleaned table has as many rows as it has when the same
\* cell holds a valid past date: the row is not removed for its date.
C26_TransformOnly ==
    \A n \in {INV, TRX} \cap DOMAIN datasets :
       LET d == datasets[n]
           pasos == d.health.cleaning_log.pasos
           again == IF n = INV
                    THEN cargar_inventario(WithDates(d.raw, 50))
                    ELSE cargar_transacciones(WithDates(d.raw, 50), inventario_limpio)
       IN  /\ \A i \in 1..Len(pasos) :
                 pasos[i].nombre \in TransformSteps
                 => /\ pasos[i].filas_antes = Len(d.raw.rows)
                    /\ pasos[i].filas_despues = Len(d.raw.rows)
                    /\ pasos[i].filas_eliminadas = 0
           /\ HasDateStep(n) => pasos[1].nombre \in TransformSteps
           /\ "SKU_Fantasma" \in d.clean.cols
                 => \E i \in 1..Len(pasos) :
                       pasos[i].nombre = "Detectar SKU Fantasma (no existe en inventario)"
           /\ \A i \in 1..Len(d.clean.rows) :
                 \A c \in DateCols \cap DOMAIN d.clean.rows[i] :
                    d.clean.rows[i][c] # BadDate
           /\ Len(d.clean.rows) = Len(again.clean.rows)

\* an Inventory row whose review date cannot be parsed is in the cleaned
\* table with a null date, and so is a Transactions row with its sale date
C26_Witness ==
    \/ /\ INV \in DOMAIN datasets
       /\ Len(datasets[INV].raw.rows) = 2
       /\ Len(datasets[INV].clean.rows) = 2
       /\ datasets[INV].raw.rows[2].Ultima_Revision = BadDate
       /\ datasets[INV].clean.rows[2].Ultima_Revision = NaN
       /\ datasets[INV].health.cleaning_log.pasos[1].filas_despues = 2
    \/ /\ TRX \in DOMAIN datasets
       /\ "SKU_Fantasma" \in datasets[TRX].clean.cols
       /\ Len(datasets[TRX].raw.rows) = 2
       /\ Len(datasets[TRX].clean.rows) = 2
       /\ datasets[TRX].raw.rows[2].Fecha_Venta = BadDate
       /\ datasets[TRX].clean.rows[2].Fecha_Venta = NaN
       /\ datasets[TRX].health.cleaning_log.pasos[2].filas_despues = 2

\* C27: in a run with both files, when the Transactions cleaner is about to
\* start the Inventory cleaner has returned and its cleaned table is the
\* one handed over; every cleaned transaction is tagged phantom exactly
\* when its identifier is not one of the cleaned Inventory, whatever the
\* uploaded Inventory holds.
C27_InventoryFirst ==
    (inventario_file # None /\ transacciones_file # None)
    => /\ pc = "load_transacciones"
            => /\ INV \in DOMAIN datasets
               /\ inventario_limpio = datasets[INV].clean
               /\ TRX \notin DOMAIN datasets
       /\ TRX \in DOMAIN datasets
            => /\ INV \in DOMAIN datasets
               /\ "SKU_Fantasma" \in datasets[TRX].clean.cols
               /\ \A i \in 1..Len(datasets[TRX].clean.rows) :
                     datasets[TRX].clean.rows[i].SKU_Fantasma
                        = (datasets[TRX].clean.rows[i].SKU_ID
                             \notin skus_validos(datasets[INV].clean))

\* a transaction of a product that is in the uploaded Inventory and that
\* the Inventory cleaner removed is tagged phantom
C27_Witness ==
    /\ INV \in DOMAIN datasets
    /\ TRX \in DOMAIN datasets
    /\ \E i \in 1..Len(datasets[TRX].clean.rows) :
          /\ datasets[TRX].clean.rows[i].SKU_Fantasma
          /\ datasets[TRX].clean.rows[i].SKU_ID
                \in skus_validos(datasets[INV].raw)

\* the records of the logger are numbered 1..n in their order, each with
\* removed = rows_before - rows_after and the percentage the hundredth
\* nearest to removed / max(1, rows_before) * 100
LogWellFormed ==
    \A i \in 1..Len(logger) :
       LET s == logger[i]
           d == IF s.filas_antes < 1 THEN 1 ELSE s.filas_antes
       IN  /\ s.paso = i
           /\ s.filas_eliminadas = s.filas_antes - s.filas_despues
           /\ 2 * (s.pct_eliminado * d - s.filas_eliminadas * 10000) \in (0 - d)..d

\* the summary last rendered shows, in their order, the records the logger
\* had then: a block of lines for each of the first k records
SummaryInOrder ==
    \/ summary = <<>>
    \/ summary = << <<"Sin cambios detectados">> >>
    \/ \E k \in 1..Len(logger) :
          /\ Len(summary) = 5 * k
          /\ \A i \in 1..k :
                /\ summary[5 * i - 4] = <<"Paso", i, logger[i].nombre>>
                /\ summary[5 * i - 3]
                     = <<"Filas", logger[i].filas_antes,
                         logger[i].filas_despues,
                         logger[i].filas_eliminadas,
                         logger[i].pct_eliminado>>

\* a call leaves every earlier record as it was, in its place
AppendOnly ==
    /\ Len(logger') >= Len(logger)
    /\ SubSeq(logger', 1, Len(logger)) = logger

\* C28: after any sequence of log_step calls the records are numbered 1..n
\* in call order, each with removed = rows_before - rows_after and the
\* percentage round(removed / max(1, rows_before) * 100, 2), also when
\* rows_before = 0; no call changes an earlier record; and the summary
\* renders the records in that order.
C28_AppendOnlyLog ==
    [](LogWellFormed /\ SummaryInOrder) /\ [][AppendOnly]_vars

\* two records, one of a step on an empty table and one of 2 rows removed
\* of 3 (66.67 %), rendered in the summary
C28_Witness ==
    /\ Len(logger) = 2
    /\ logger[1].filas_antes = 0
    /\ logger[1].pct_eliminado = 0
    /\ logger[2].filas_antes = 3
    /\ logger[2].filas_despues = 1
    /\ logger[2].pct_eliminado = 6667
    /\ Len(summary) = 10

\* C29: the health score of an uploaded Feedback table that holds an
\* impossible age (below 0 or above 110) carries the 15-point penalty: it
\* is at most 100 - 15.
C29_ImpossibleAgePenalty ==
    (/\ FB \in DOMAIN hc_raw
     /\ \/ ColCount(datasets[FB].raw, "Edad_Cliente", "lt", 0) > 0
        \/ ColCount(datasets[FB].raw, "Edad_Cliente", "gt", 110) > 0)
    => hc_raw[FB].health_score <= 8500

\* the part of the penalty the scorer does apply: an age above 110
ExtremeAgePenalised ==
    (/\ FB \in DOMAIN hc_raw
     /\ ColCount(datasets[FB].raw, "Edad_Cliente", "gt", 110) > 0)
    => hc_raw[FB].health_score <= 8500

\* the trimmed identifier of the row r is one of the cleaned Inventory
InTrimmedInventory(r) ==
    \E j \in 1..Len(inventario_limpio.rows) :
       NormSku(inventario_limpio.rows[j].SKU_ID) = NormSku(r.SKU_ID)

\* tag and classification agree on every row that reaches the
\* reconciliation
TagMatchesStatus ==
    (/\ has_merged
     /\ "SKU_Fantasma" \in datasets[TRX].clean.cols)
    => \A i \in 1..Len(datasets[TRX].clean.rows) :
          \A m \in Range(MergeRows(datasets[TRX].clean.rows[i], datasets[INV].clean.rows)) :
             datasets[TRX].clean.rows[i].SKU_Fantasma = (sku_status(m) = "FANTASMA")

\* no transaction of a product of the cleaned Inventory, by its trimmed
\* identifier, is removed as phantom: those with a delivery time up to 999
\* and their other fields valid are all in the cleaned Transactions
NoInventoryProductRemovedAsPhantom ==
    (/\ has_merged
     /\ "SKU_Fantasma" \in datasets[TRX].clean.cols)
    => Len(SelectSeq(datasets[TRX].clean.rows, InTrimmedInventory))
         = Len(SelectSeq(TrxTagged(datasets[TRX].raw, inventario_limpio).rows,
                 LAMBDA r : /\ InTrimmedInventory(r)
                            /\ OtherwiseValid(r)
                            /\ ~gt(r.Tiempo_Entrega_Real, 999)))

\* C30: for every cleaned transaction of a reconciled run the tag
\* SKU_Fantasma of the cleaner is true exactly when FASE 2 classifies the
\* row FANTASMA; and a transaction whose trimmed identifier is in the
\* cleaned Inventory, with a delivery time up to 999 and its other fields
\* valid, is in the cleaned Transactions whatever its delivery time.
C30_PhantomDetectorsAgree ==
    TagMatchesStatus /\ NoInventoryProductRemovedAsPhantom
====
